---- MODULE Spec2Model ----
(***************************************************************************)
(* Channel matching & attribution of the channel-service                   *)
(* (services/channel-service): MatchingService and AttributionService.     *)
(*                                                                         *)
(* Conventions                                                             *)
(*  - float64 values are modelled as exact rationals [n, d] in lowest      *)
(*    terms (d > 0); rounding of IEEE arithmetic is not modelled.          *)
(*  - time is counted in abstract ticks; Redis keys carry the tick at      *)
(*    which they expire and are gone from that tick on.                    *)
(*  - Redis is taken to answer every command; the SQL store may fail.      *)
(*  - uuid.New() is modelled as a fresh counter value.                     *)
(***************************************************************************)
EXTENDS Integers, Sequences, FiniteSets, TLC

\* ------------------------------------------------------------------ bounds

\* Last tick of the clock.
MaxTime == 3

\* Number of MatchChannels calls explored.
MaxCalls == 2

\* config.RedirectExpiration, in ticks (default 3600 s).
RedirectExpiration == 2

\* config.MaxMatchingResults (default 10), scaled to the catalogue below.
MaxMatchingResults == 2

\* TTL of an eligible_channels:* cache entry, in ticks (5 minutes).
EligibleCacheTTL == 1

\* config.AttributionWindow, in ticks (default 86400 s).
AttributionWindow == 2

\* TTL of a channel_stats:* hash, in ticks (24 hours).
ChannelStatsTTL == 2

\* Number of TrackEvent calls that persist an event, from an empty store.
MaxEvents == 11

\* Ticks in a calendar day.
TicksPerDay == 2

\* Items pushed onto the processor queues.
MaxQueued == 3

\* Events already tracked (all at tick 0) when the conversion runs start,
\* the events tracked after that, and the TrackConversion calls.
PreEvents == 9
MoreEvents == 3
MaxConversions == 1

\* Events the first user tracks while calls interleave.
MaxRaceEvents == 1

\* Items pushed onto the queues while the background loops run.
MaxLoopItems == 1

\* Sync events published before the sync ticker stops firing.
MaxSyncEvents == 1

\* config.ChannelCacheTTL, in ticks (default 600 s).
ChannelCacheTTL == 2

\* UpdateChannel calls explored.
MaxUpdates == 1

\* Items on matching:queue when a drain starts.
MaxDrainItems == 2

\* Active channels a sync cycle finds, and the largest
\* config.MaxConcurrentSyncs explored.
MaxSyncChannels == 2
MaxSyncSlots == 2

\* --------------------------------------------------------------- rationals

RECURSIVE GCD(_, _)
GCD(a, b) == IF b = 0 THEN a ELSE GCD(b, a % b)

Abs(x) == IF x < 0 THEN -x ELSE x

\* n/d in lowest terms with a positive denominator.
Rat(n, d) ==
    LET s == IF d < 0 THEN -1 ELSE 1
        g == GCD(Abs(n), Abs(d))
    IN  [n |-> (s * n) \div g, d |-> (s * d) \div g]

RAdd(a, b) == Rat(a.n * b.d + b.n * a.d, a.d * b.d)
RSub(a, b) == Rat(a.n * b.d - b.n * a.d, a.d * b.d)
RMul(a, b) == Rat(a.n * b.n, a.d * b.d)
RDiv(a, b) == Rat(a.n * b.d, a.d * b.n)
RLt(a, b) == a.n * b.d < b.n * a.d
RLe(a, b) == a.n * b.d <= b.n * a.d
RMax(a, b) == IF RLt(a, b) THEN b ELSE a

Zero == Rat(0, 1)
One == Rat(1, 1)

\* A decimal literal with one or two or four decimals.
Tenths(k) == Rat(k, 10)
Hundredths(k) == Rat(k, 100)
TenThousandths(k) == Rat(k, 10000)

\* ------------------------------------------------------------------ config

\* viper default MIN_MATCHING_SCORE = 0.6
MinMatchingScore == Tenths(6)

\* ----------------------------------------------------------------- channels

NoKYC == ""

\* A models.Channel row, with the fields the matching engine reads.  Taker is
\* Fees.Trading.Taker, Crypto is Fees.Withdrawal.Crypto, Coverage is
\* Security.Insurance.Coverage (0: no insurance), Audits is len(Security.Audits),
\* PaymentMethods lists the Method of each entry.
BaseChannel ==
    [ID |-> "c0", Type |-> "dex", Status |-> "active", IsActive |-> TRUE,
     KYCRequired |-> FALSE, MinimumNetWorth |-> 0,
     PaymentMethods |-> <<"card", "bank">>,
     HasTradingAPI |-> TRUE, Chat |-> TRUE, Phone |-> "+1",
     ResponseTime |-> "instant", Coverage |-> 1000, Segregation |-> TRUE,
     Audits |-> 0, Taker |-> Zero, Crypto |-> Zero,
     SupportedAssets |-> {"a1"}, SupportedRegions |-> {"US"}]

\* The channels table, in row order (c2, c3, c1, c4, c5, c6).  c1 requires KYC and is otherwise the
\* best venue; c2 charges fees, so its score depends on the amount, and takes
\* cards only; c3 and c4 score alike for asset a1; c5 is inactive; c6 is a
\* poor venue, the only one for asset a3.
Catalogue ==
    << [BaseChannel EXCEPT !.ID = "c2", !.Type = "broker",
                           !.PaymentMethods = <<"card">>, !.Coverage = 0,
                           !.Taker = TenThousandths(50), !.Crypto = Rat(5, 1)],
       [BaseChannel EXCEPT !.ID = "c3", !.Coverage = 0,
                           !.SupportedAssets = {"a1", "a2"}],
       [BaseChannel EXCEPT !.ID = "c1", !.Type = "exchange",
                           !.KYCRequired = TRUE, !.Audits = 1],
       [BaseChannel EXCEPT !.ID = "c4", !.Coverage = 0,
                           !.SupportedRegions = {"US", "EU"}],
       [BaseChannel EXCEPT !.ID = "c5", !.Type = "bank", !.IsActive = FALSE,
                           !.SupportedAssets = {"a1", "a2", "a3"},
                           !.SupportedRegions = {"US", "EU"}],
       [BaseChannel EXCEPT !.ID = "c6", !.Type = "issuer",
                           !.MinimumNetWorth = 5, !.PaymentMethods = <<"bank">>,
                           !.HasTradingAPI = FALSE, !.Chat = FALSE,
                           !.Phone = "", !.ResponseTime = "1day",
                           !.Coverage = 0, !.Segregation = FALSE,
                           !.Taker = Hundredths(1),
                           !.SupportedAssets = {"a3"}] >>

\* A MatchingRequest.
Request(asset, amount, user, region, kyc, method) ==
    [AssetID |-> asset, Amount |-> Rat(amount, 1), UserID |-> user,
     UserRegion |-> region, KYCLevel |-> kyc, PaymentMethod |-> method]

\* The requests explored.  For a1 in the US four channels are eligible (more
\* than MaxMatchingResults), for a2 one, for a3 one that scores below the
\* threshold, and for a2 in the EU none.
Requests ==
    { Request("a1", 10000, "u1", "US", NoKYC, "card"),
      Request("a1", 1000, "u1", "US", "basic", "bank"),
      Request("a2", 1000, "u1", "US", "basic", "card"),
      Request("a3", 1000, "u1", "US", "basic", "bank"),
      Request("a2", 1000, "u1", "EU", "basic", "card") }

\* ------------------------------------------------------------------- state

VARIABLES
    now,            \* the clock, in ticks
    channels,       \* the channels table (SQL), in row order
    eligibleCache,  \* Redis eligible_channels:<asset>:<region> keys
    redirects,      \* Redis redirect:<id> keys
    nextUUID,       \* uuid.New(): the next fresh value
    calls,          \* MatchChannels calls made so far
    lastMatch,      \* what the last MatchChannels call did and returned
    lastRedirect,   \* what the last GetRedirectInfo call returned
    attributionPaths, \* Redis attribution_path:<user> lists
    channelStats,   \* Redis channel_stats:<channel> hashes
    events,         \* the attribution_events table (SQL), in insert order
    conversions,    \* the conversion_events table (SQL), in insert order
    published,      \* messages published to attribution-events, by type
    budget,         \* calls left: events per user, and conversions
    lastTrack,      \* what the last TrackEvent call returned
    lastConversion, \* what the last TrackConversion call returned
    dailyCounters,  \* Redis <kind>:<channel>:<day> counters
    queues,         \* Redis lists matching:queue, attribution:events,
                    \* attribution:conversions
    attributionStats, \* the attribution_stats table (SQL)
    ctxDone,        \* the context of the background loops is cancelled
    loops,          \* where each background loop is
    ticker,         \* per ticker-driven loop: a tick waits in ticker.C
    probe,          \* a channel and a request handed to the scorer, and
                    \* what the scorer gave for them
    goroutines,     \* calls and workers in progress: where each one is
    channelCache    \* Redis channel:<id> keys

matchVars ==
    <<now, channels, eligibleCache, redirects, nextUUID, calls, lastMatch,
      lastRedirect>>

attrVars ==
    <<now, nextUUID, attributionPaths, channelStats, events, conversions,
      published, budget, lastTrack, lastConversion>>

matchOnly ==
    <<channels, eligibleCache, redirects, calls, lastMatch, lastRedirect>>

attrOnly ==
    <<attributionPaths, channelStats, events, conversions, published, budget,
      lastTrack, lastConversion>>

\* The state of the queue processors, the rollup, the loops and the scorer
\* probe: no request handler touches it.
auxVars ==
    <<dailyCounters, queues, attributionStats, ctxDone, loops, ticker, probe, goroutines,
                   channelCache>>

\* What the request handlers own, the call budget aside.
handlerVars ==
    <<now, channels, eligibleCache, redirects, nextUUID, calls, lastMatch,
      lastRedirect, attributionPaths, channelStats, events, conversions,
      published, lastTrack, lastConversion>>

vars ==
    <<now, channels, eligibleCache, redirects, nextUUID, calls, lastMatch,
      lastRedirect, attributionPaths, channelStats, events, conversions,
      published, budget, lastTrack, lastConversion, dailyCounters, queues,
      attributionStats, ctxDone, loops, ticker, probe, goroutines,
                   channelCache>>

\* ------------------------------------------------------------ Redis strings

\* A string store maps each key that was ever SET to [val, expireAt].

Nil == [nil |-> TRUE]

\* Variant of RedisExists: a key that was set never lapses.
RedisExistsForever(store, key, t) == key \in DOMAIN store

\* A key exists until its TTL has run out.
RedisExists(store, key, t) ==
    key \in DOMAIN store /\ t < store[key].expireAt

\* GET: the value, or redis.Nil when the key does not exist.
RedisGet(store, key, t) ==
    IF RedisExists(store, key, t) THEN store[key].val ELSE Nil

\* SET key val EX ttl.
RedisSet(store, key, val, ttl, t) ==
    [k \in DOMAIN store \cup {key} |->
        IF k = key THEN [val |-> val, expireAt |-> t + ttl] ELSE store[k]]

\* ------------------------------------------------------------- Match Scorer

\* Variant of calculateFeeScore that measures the fee from zero, not from the
\* floor.
calculateFeeScoreNoFloor(channel, amount) ==
    LET totalFee == RAdd(RMul(amount, channel.Taker), channel.Crypto)
        maxFee == RMul(amount, Hundredths(1))
        minFee == RMul(amount, TenThousandths(1))
    IN  IF RLe(totalFee, minFee) THEN One
        ELSE IF RLe(maxFee, totalFee) THEN Zero
        ELSE RSub(One, RDiv(totalFee, maxFee))

\* Variant of calculateFeeScore that leaves the withdrawal fee out.
calculateFeeScoreTradingOnly(channel, amount) ==
    LET totalFee == RMul(amount, channel.Taker)
        maxFee == RMul(amount, Hundredths(1))
        minFee == RMul(amount, TenThousandths(1))
    IN  IF RLe(totalFee, minFee) THEN One
        ELSE IF RLe(maxFee, totalFee) THEN Zero
        ELSE RSub(One, RDiv(RSub(totalFee, minFee), RSub(maxFee, minFee)))

\* handlers.go calculateFeeScore
calculateFeeScore(channel, amount) ==
    LET tradingFee == RMul(amount, channel.Taker)
        withdrawalFee == channel.Crypto
        totalFee == RAdd(tradingFee, withdrawalFee)
        maxFee == RMul(amount, Hundredths(1))
        minFee == RMul(amount, TenThousandths(1))
    IN  IF RLe(totalFee, minFee) THEN One
        ELSE IF RLe(maxFee, totalFee) THEN Zero
        ELSE RSub(One, RDiv(RSub(totalFee, minFee), RSub(maxFee, minFee)))

\* The loop over channel.PaymentMethods of both availability functions.
supportedPayment(channel, request) ==
    \E i \in 1..Len(channel.PaymentMethods) :
        channel.PaymentMethods[i] = request.PaymentMethod

\* handlers.go calculateAvailabilityScore
calculateAvailabilityScore(channel, request) ==
    LET s0 == One
        s1 == IF channel.KYCRequired /\ request.KYCLevel = NoKYC
              THEN RSub(s0, Tenths(3)) ELSE s0
        s2 == IF channel.MinimumNetWorth > 0 THEN RSub(s1, Tenths(1)) ELSE s1
        s3 == IF ~supportedPayment(channel, request)
              THEN RSub(s2, Tenths(4)) ELSE s2
    IN  RMax(Zero, s3)

\* Variant of calculateUXScore that gives an instant response 0.5.
calculateUXScoreInstantHalf(channel, request) ==
    LET s1 == IF channel.HasTradingAPI THEN Tenths(3) ELSE Zero
        s2 == IF channel.Chat THEN RAdd(s1, Tenths(2)) ELSE s1
        s3 == IF channel.Phone # "" THEN RAdd(s2, Tenths(2)) ELSE s2
    IN  IF channel.ResponseTime = "instant" THEN RAdd(s3, Tenths(5))
        ELSE IF channel.ResponseTime = "1hour" THEN RAdd(s3, Tenths(2))
        ELSE RAdd(s3, Tenths(1))

\* handlers.go calculateUXScore
calculateUXScore(channel, request) ==
    LET s1 == IF channel.HasTradingAPI THEN Tenths(3) ELSE Zero
        s2 == IF channel.Chat THEN RAdd(s1, Tenths(2)) ELSE s1
        s3 == IF channel.Phone # "" THEN RAdd(s2, Tenths(2)) ELSE s2
    IN  IF channel.ResponseTime = "instant" THEN RAdd(s3, Tenths(3))
        ELSE IF channel.ResponseTime = "1hour" THEN RAdd(s3, Tenths(2))
        ELSE RAdd(s3, Tenths(1))

\* handlers.go calculateSecurityScore
calculateSecurityScore(channel) ==
    LET s1 == IF channel.Coverage > 0 THEN Tenths(4) ELSE Zero
        s2 == IF channel.Segregation THEN RAdd(s1, Tenths(3)) ELSE s1
    IN  IF channel.Audits > 0 THEN RAdd(s2, Tenths(3)) ELSE s2

\* handlers.go calculateLiquidityScore
calculateLiquidityScore(channel, assetID, amount) ==
    CASE channel.Type = "exchange" -> Tenths(9)
      [] channel.Type = "broker" -> Tenths(7)
      [] channel.Type = "dex" -> Tenths(6)
      [] OTHER -> Tenths(5)

\* Variant of checkChannelAvailability without the payment gate.
checkChannelAvailabilityKYCOnly(channel, request) ==
    LET kyc == channel.KYCRequired /\ request.KYCLevel = NoKYC
    IN  [Available |-> ~kyc,
         Reasons |-> IF kyc THEN <<"KYC verification required">> ELSE <<>>]

\* handlers.go checkChannelAvailability
checkChannelAvailability(channel, request) ==
    LET kyc == channel.KYCRequired /\ request.KYCLevel = NoKYC
        pay == ~supportedPayment(channel, request)
    IN  [Available |-> ~kyc /\ ~pay,
         Reasons |->
            (IF kyc THEN <<"KYC verification required">> ELSE <<>>)
            \o (IF pay THEN <<"Payment method not supported">> ELSE <<>>)]

\* The weights calculateChannelMatch gives the five sub-scores.
Weights ==
    [fee |-> Hundredths(30), availability |-> Hundredths(25),
     ux |-> Hundredths(20), security |-> Hundredths(15),
     liquidity |-> Hundredths(10)]

\* The score of calculateChannelMatch: the weighted sum over maxScore.
matchScore(channel, request) ==
    LET feeScore == calculateFeeScore(channel, request.Amount)
        availabilityScore == calculateAvailabilityScore(channel, request)
        uxScore == calculateUXScore(channel, request)
        securityScore == calculateSecurityScore(channel)
        liquidityScore ==
            calculateLiquidityScore(channel, request.AssetID, request.Amount)
        score ==
            RAdd(RAdd(RAdd(RAdd(RMul(feeScore, Weights.fee),
                                RMul(availabilityScore, Weights.availability)),
                           RMul(uxScore, Weights.ux)),
                      RMul(securityScore, Weights.security)),
                 RMul(liquidityScore, Weights.liquidity))
        maxScore ==
            RAdd(RAdd(RAdd(RAdd(Weights.fee, Weights.availability),
                           Weights.ux), Weights.security), Weights.liquidity)
    IN  RDiv(score, maxScore)

\* ---------------------------------------------------------- Matching Engine

\* The WHERE clause of getEligibleChannels.
eligibleRow(c, assetID, userRegion) ==
    /\ c.Status = "active" /\ c.IsActive
    /\ assetID \in c.SupportedAssets
    /\ userRegion \in c.SupportedRegions

\* Variant of getEligibleChannels that never reads the cache: every call
\* queries the table and stores what it found.
getEligibleChannelsUncached(cache, table, assetID, userRegion, dbErr, t) ==
    LET cacheKey == <<assetID, userRegion>>
        rows == SelectSeq(table, LAMBDA c : eligibleRow(c, assetID, userRegion))
    IN  IF dbErr
        THEN [err |-> TRUE, channels |-> <<>>, cache |-> cache, hit |-> FALSE]
        ELSE [err |-> FALSE, channels |-> rows,
              cache |-> RedisSet(cache, cacheKey, rows, EligibleCacheTTL, t),
              hit |-> FALSE]

\* handlers.go getEligibleChannels.  dbErr: the query fails.  Gives the error
\* flag, the list, and the cache as the call leaves it.
getEligibleChannels(cache, table, assetID, userRegion, dbErr, t) ==
    LET cacheKey == <<assetID, userRegion>>
        hit == RedisExists(cache, cacheKey, t)
        cached == RedisGet(cache, cacheKey, t)
        rows == SelectSeq(table, LAMBDA c : eligibleRow(c, assetID, userRegion))
    IN  IF hit
        THEN [err |-> FALSE, channels |-> cached, cache |-> cache, hit |-> TRUE]
        ELSE IF dbErr
        THEN [err |-> TRUE, channels |-> <<>>, cache |-> cache, hit |-> FALSE]
        ELSE [err |-> FALSE, channels |-> rows,
              cache |-> RedisSet(cache, cacheKey, rows, EligibleCacheTTL, t),
              hit |-> FALSE]

\* handlers.go generateRedirectInfo: the descriptor (the URL is the channel's
\* site with the redirect id appended).
generateRedirectInfo(channel, request, redirectID, t) ==
    [URL |-> <<channel.ID, redirectID>>, Method |-> "GET",
     ExpiresAt |-> t + RedirectExpiration]

\* Variant of cacheRedirectInfo: the key is stored with a TTL one tick short.
cacheRedirectInfoShortTTL(store, redirectID, redirectInfo, request, t) ==
    RedisSet(store, redirectID,
             [redirect_info |-> redirectInfo, request |-> request,
              created_at |-> t],
             RedirectExpiration - 1, t)

\* handlers.go cacheRedirectInfo: the redirect:<id> key after the SET.
cacheRedirectInfo(store, redirectID, redirectInfo, request, t) ==
    RedisSet(store, redirectID,
             [redirect_info |-> redirectInfo, request |-> request,
              created_at |-> t],
             RedirectExpiration, t)

\* handlers.go calculateChannelMatch: the result built for one channel.
calculateChannelMatch(channel, request, redirectID, t) ==
    [ChannelID |-> channel.ID,
     MatchScore |-> matchScore(channel, request),
     Availability |-> checkChannelAvailability(channel, request),
     RedirectID |-> redirectID,
     RedirectInfo |-> generateRedirectInfo(channel, request, redirectID, t)]

\* The results of the scoring loop, one per channel in fetch order; the i-th
\* channel gets the i-th fresh uuid.
scoreAll(chs, request, uuid, t) ==
    [i \in 1..Len(chs) |->
        calculateChannelMatch(chs[i], request, uuid + i - 1, t)]

\* The redirect:* keys after the scoring loop has run over all channels.
RECURSIVE cacheAll(_, _, _, _)
cacheAll(store, scored, request, t) ==
    IF scored = <<>> THEN store
    ELSE cacheAll(cacheRedirectInfo(store, Head(scored).RedirectID,
                                    Head(scored).RedirectInfo, request, t),
                  Tail(scored), request, t)

\* Variant of less: the comparison the other way round (ascending order).
lessAscending(a, b) == RLt(a.MatchScore, b.MatchScore)

\* The comparison handed to sort.Slice.
less(a, b) == RLt(b.MatchScore, a.MatchScore)

Perms(n) ==
    { p \in [1..n -> 1..n] : \A i, j \in 1..n : i # j => p[i] # p[j] }

\* sort.Slice(results, less): the sort is not stable, so every arrangement
\* of the elements that is sorted by `less` is a possible outcome.
sortSlice(results) ==
    { [i \in 1..Len(results) |-> results[p[i]]] :
        p \in { q \in Perms(Len(results)) :
                  \A i, j \in 1..Len(results) :
                      i < j => ~less(results[q[j]], results[q[i]]) } }

\* Variant of truncate: keeps the tail of the list instead of its head.
truncateTail(results) ==
    IF Len(results) > MaxMatchingResults
    THEN SubSeq(results, Len(results) - MaxMatchingResults + 1, Len(results))
    ELSE results

\* results[:MaxMatchingResults] when the list is longer.
truncate(results) ==
    IF Len(results) > MaxMatchingResults
    THEN SubSeq(results, 1, MaxMatchingResults) ELSE results

\* lastRedirect holds the answer of a GetRedirectInfo call until the next
\* operation or tick.
NoRedirect ==
    [called |-> FALSE, id |-> 0, found |-> FALSE, data |-> Nil, again |-> FALSE]

\* Variant of meetsMinimum that lets every scored channel through.
meetsMinimumAny(result) == TRUE

\* The minimum-score test of the scoring loop.
meetsMinimum(result) == RLe(MinMatchingScore, result.MatchScore)

\* Variant of matchError: the empty list is not treated as an error.
matchErrorNoEmptyCheck(got) ==
    IF got.err THEN "failed to get eligible channels" ELSE ""

\* The two early returns of MatchChannels: the error it gives, "" for none.
matchError(got) ==
    IF got.err THEN "failed to get eligible channels"
    ELSE IF Len(got.channels) = 0 THEN "no eligible channels found"
    ELSE ""

\* lastMatch: the request, whether the cache answered, whether the query was
\* made and failed, the ids of the eligible channels, every result the scoring
\* loop built (fetch order), and the error and the list returned.
NoMatch ==
    [called |-> FALSE, request |-> Nil, hit |-> FALSE, dbFailed |-> FALSE,
     eligible |-> <<>>, scored |-> <<>>, err |-> "", results |-> <<>>]

\* handlers.go MatchChannels, one call.
MatchChannels(request, dbErr) ==
    /\ calls < MaxCalls
    /\ calls' = calls + 1
    /\ LET got == getEligibleChannels(eligibleCache, channels, request.AssetID,
                                      request.UserRegion, dbErr, now)
           err == matchError(got)
           scored == IF err = ""
                     THEN scoreAll(got.channels, request, nextUUID, now)
                     ELSE <<>>
           kept == SelectSeq(scored, meetsMinimum)
       IN  /\ eligibleCache' = got.cache
           /\ redirects' = cacheAll(redirects, scored, request, now)
           /\ nextUUID' = nextUUID + Len(scored)
           /\ \E sorted \in sortSlice(kept) :
                lastMatch' =
                    [called |-> TRUE, request |-> request, hit |-> got.hit,
                     dbFailed |-> got.err,
                     eligible |-> [i \in DOMAIN got.channels |->
                                     got.channels[i].ID],
                     scored |-> scored, err |-> err,
                     results |-> IF err = "" THEN truncate(sorted) ELSE <<>>]
    /\ lastRedirect' = NoRedirect
    /\ UNCHANGED <<now, channels>>
    /\ UNCHANGED attrOnly

\* Variant of getRedirectInfo: the key is deleted once read (single use).
getRedirectInfoOnce(store, redirectID, t) ==
    [found |-> RedisExists(store, redirectID, t),
     data |-> RedisGet(store, redirectID, t),
     store |-> [k \in DOMAIN store \ {redirectID} |-> store[k]]]

\* handlers.go GetRedirectInfo: whether the key was found, the record, and
\* the redirect:* keys as the call leaves them (a GET changes nothing).
getRedirectInfo(store, redirectID, t) ==
    [found |-> RedisExists(store, redirectID, t),
     data |-> RedisGet(store, redirectID, t),
     store |-> store]

\* One GetRedirectInfo call; `again` marks a call that follows a successful
\* call for the same id.
GetRedirectInfo(redirectID) ==
    /\ LET got == getRedirectInfo(redirects, redirectID, now)
       IN  /\ lastRedirect' =
                 [called |-> TRUE, id |-> redirectID, found |-> got.found,
                  data |-> got.data,
                  again |-> /\ lastRedirect.called
                            /\ lastRedirect.found
                            /\ lastRedirect.id = redirectID]
           /\ redirects' = got.store
    /\ UNCHANGED <<now, channels, eligibleCache, nextUUID, calls, lastMatch>>
    /\ UNCHANGED attrOnly

\* -------------------------------------------------------------- Redis lists

\* A list store maps each key to [val, persistent, expireAt]: a key made by
\* LPUSH has no TTL (persistent) until EXPIRE gives it one.
ListExists(store, key, t) ==
    key \in DOMAIN store /\ (store[key].persistent \/ t < store[key].expireAt)

\* LRANGE key 0 -1: the whole list, empty when the key does not exist.
RedisLRange(store, key, t) ==
    IF ListExists(store, key, t) THEN store[key].val ELSE <<>>

\* LPUSH key v: v becomes the head; a key that does not exist is created.
RedisLPush(store, key, v, t) ==
    [k \in DOMAIN store \cup {key} |->
        IF k # key THEN store[k]
        ELSE IF ListExists(store, key, t)
        THEN [store[key] EXCEPT !.val = <<v>> \o store[key].val]
        ELSE [val |-> <<v>>, persistent |-> TRUE, expireAt |-> 0]]

\* LTRIM that keeps every element.
RedisLTrimKeepAll(store, key, stop, t) == store

\* LTRIM key 0 stop: keeps the elements 0..stop.
RedisLTrim(store, key, stop, t) ==
    IF ~ListExists(store, key, t) THEN store
    ELSE [store EXCEPT ![key].val =
            IF Len(@) > stop + 1 THEN SubSeq(@, 1, stop + 1) ELSE @]

\* EXPIRE key ttl NX: sets the TTL only when the key has none.
RedisExpireNX(store, key, ttl, t) ==
    IF ~ListExists(store, key, t) \/ ~store[key].persistent THEN store
    ELSE [store EXCEPT ![key].persistent = FALSE, ![key].expireAt = t + ttl]

\* Variant of RedisExpire that sets the expiry of every live list.
RedisExpireEvery(store, key, ttl, t) ==
    [k \in DOMAIN store |->
        IF ListExists(store, k, t)
        THEN [store[k] EXCEPT !.persistent = FALSE, !.expireAt = t + ttl]
        ELSE store[k]]

\* EXPIRE key ttl.
RedisExpire(store, key, ttl, t) ==
    IF ~ListExists(store, key, t) THEN store
    ELSE [store EXCEPT ![key].persistent = FALSE, ![key].expireAt = t + ttl]

\* ------------------------------------------------------ Attribution Tracker

Users == {"u1", "u2"}

NoUser == ""

\* The event types of the workload: the four handleAttributionEvent knows
\* (click twice) and one it does not.
EventTypes == <<"click", "click", "hover", "view", "redirect", "signup">>

\* The event types handleAttributionEvent knows.
KnownTypes == {"click", "view", "redirect", "signup"}

\* The place of the first unknown type in the workload.
FirstUnknown ==
    CHOOSE n \in 1..Len(EventTypes) :
       /\ EventTypes[n] \notin KnownTypes
       /\ \A k \in 1..(n - 1) : EventTypes[k] \in KnownTypes

\* The channel and the type of the n-th event persisted: channels A and B
\* alternate and the types cycle, so the first two are A:click and B:click.
Workload(n) ==
    [ChannelID |-> IF n % 2 = 1 THEN "A" ELSE "B",
     EventType |-> EventTypes[((n - 1) % Len(EventTypes)) + 1]]

\* The touchpoint string "<channel>:<type>:<unix time>".
touchpoint(event) == <<event.ChannelID, event.EventType, event.Timestamp>>

\* Index of the last element LTRIM keeps (the path holds 10 touchpoints).
PathStop == 9

\* channel_service.go updateUserAttributionPath: the attribution_path:* keys
\* after LPUSH, LTRIM 0 9 and EXPIRE.
updateUserAttributionPath(store, event, t) ==
    LET pathKey == event.UserID
        pushed == RedisLPush(store, pathKey, touchpoint(event), t)
        trimmed == RedisLTrim(pushed, pathKey, PathStop, t)
    IN  RedisExpire(trimmed, pathKey, AttributionWindow, t)

\* LRANGE read oldest-first.
getUserAttributionPathOldestFirst(store, userID, t) ==
    LET path == RedisLRange(store, userID, t)
    IN  [i \in 1..Len(path) |-> path[Len(path) + 1 - i]]

\* channel_service.go getUserAttributionPath
getUserAttributionPath(store, userID, t) == RedisLRange(store, userID, t)

\* channel_service.go updateChannelStats: the channel_stats:* hashes after
\* the pipeline (HINCRBY, HINCRBYFLOAT twice, EXPIRE).
updateChannelStats(store, conversion, t) ==
    LET statsKey == conversion.ChannelID
        old == IF statsKey \in DOMAIN store /\ t < store[statsKey].expireAt
               THEN store[statsKey].val
               ELSE [total_conversions |-> 0, total_revenue |-> 0,
                     total_amount |-> 0]
    IN  [k \in DOMAIN store \cup {statsKey} |->
            IF k # statsKey THEN store[k]
            ELSE [val |-> [total_conversions |-> old.total_conversions + 1,
                           total_revenue |->
                               old.total_revenue + conversion.Revenue,
                           total_amount |->
                               old.total_amount + conversion.Amount],
                  expireAt |-> t + ChannelStatsTTL]]

NoCall == [called |-> FALSE, err |-> ""]

\* Variant of missingRequired: only the user id is required.
missingRequiredUserOnly(event) == event.UserID = NoUser

\* TrackEvent: event.UserID == "" || event.EventType == ""
missingRequired(event) == event.UserID = NoUser \/ event.EventType = ""

\* channel_service.go TrackEvent, one call.  The event carries no id and no
\* timestamp, so both are filled in; dbErr: the insert fails.
TrackEvent(userID, typed, dbErr) ==
    LET n == Len(events) + 1
        event == [ID |-> nextUUID, UserID |-> userID,
                  EventType |-> IF typed THEN Workload(n).EventType ELSE "",
                  ChannelID |-> Workload(n).ChannelID, Timestamp |-> now]
    IN  IF missingRequired(event)
        THEN /\ lastTrack' =
                  [called |-> TRUE, err |-> "user_id and event_type are required"]
             /\ UNCHANGED <<nextUUID, attributionPaths, events, published,
                            budget>>
        ELSE /\ userID \in DOMAIN budget.events
             /\ budget.events[userID] > 0
             /\ IF dbErr
                THEN /\ lastTrack' =
                          [called |-> TRUE,
                           err |-> "failed to save attribution event"]
                     /\ UNCHANGED <<nextUUID, attributionPaths, events,
                                    published, budget>>
                ELSE /\ events' = Append(events, event)
                     /\ nextUUID' = nextUUID + 1
                     /\ budget' = [budget EXCEPT !.events[userID] = @ - 1]
                     /\ attributionPaths' =
                          updateUserAttributionPath(attributionPaths, event, now)
                     /\ published' =
                          [published EXCEPT !.attribution_event = @ + 1]
                     /\ lastTrack' = [called |-> TRUE, err |-> ""]

\* One TrackEvent call and what it leaves alone.
TrackEventCall(userID, typed, dbErr) ==
    /\ TrackEvent(userID, typed, dbErr)
    /\ lastConversion' = NoCall
    /\ UNCHANGED <<now, channelStats, conversions>>
    /\ UNCHANGED matchOnly

\* channel_service.go TrackConversion, one call.
TrackConversion(userID, channelID, dbErr) ==
    /\ budget.conversions > 0
    /\ budget' = [budget EXCEPT !.conversions = @ - 1]
    /\ LET attributionPath ==
               getUserAttributionPath(attributionPaths, userID, now)
           conversion ==
               [ID |-> nextUUID, UserID |-> userID, ChannelID |-> channelID,
                Amount |-> 100, Revenue |-> 10,
                AttributionPath |-> attributionPath, Timestamp |-> now]
       IN  IF dbErr
           THEN /\ lastConversion' =
                     [called |-> TRUE,
                      err |-> "failed to save conversion event"]
                /\ UNCHANGED <<nextUUID, conversions, channelStats, published>>
           ELSE /\ conversions' = Append(conversions, conversion)
                /\ nextUUID' = nextUUID + 1
                /\ channelStats' =
                     updateChannelStats(channelStats, conversion, now)
                /\ published' = [published EXCEPT !.conversion_event = @ + 1]
                /\ lastConversion' = [called |-> TRUE, err |-> ""]
    /\ lastTrack' = NoCall
    /\ UNCHANGED <<now, attributionPaths, events>>
    /\ UNCHANGED matchOnly

\* ------------------------------------------------- Conversion & Revenue counters

\* time.Now().Format("2006-01-02")
Today(t) == t \div TicksPerDay

\* 30*24*time.Hour
CounterTTL == 30 * TicksPerDay

\* INCRBY / INCRBYFLOAT key delta: a key that does not exist counts from 0 and
\* is created without a TTL; an existing key keeps its TTL.
RedisIncrBy(store, key, delta, t) ==
    [k \in DOMAIN store \cup {key} |->
        IF k # key THEN store[k]
        ELSE IF ListExists(store, key, t)
        THEN [store[key] EXCEPT !.val = @ + delta]
        ELSE [val |-> delta, persistent |-> TRUE, expireAt |-> 0]]

\* redis.Get(key).Int64() and .Float64() with the error dropped: 0 when the
\* key does not exist.
RedisGetNumber(store, key, t) ==
    IF ListExists(store, key, t) THEN store[key].val ELSE 0

\* The key "<kind>:<channel>:<day>".
counterKey(kind, channelID, t) == <<kind, channelID, Today(t)>>

\* handleClickEvent, handleViewEvent, handleRedirectEvent, handleSignupEvent:
\* INCR then EXPIRE of the day's key.
incrDaily(store, kind, channelID, delta, t) ==
    LET key == counterKey(kind, channelID, t)
    IN  RedisExpire(RedisIncrBy(store, key, delta, t), key, CounterTTL, t)

\* The counter kind of each known event type.
kindOf(eventType) ==
    CASE eventType = "click" -> "clicks"
      [] eventType = "view" -> "views"
      [] eventType = "redirect" -> "redirects"
      [] eventType = "signup" -> "signups"

\* Variant of handleAttributionEvent: an unknown type counts as a click.
handleAttributionEventDefaultClick(store, event, t) ==
    IF event.EventType \in KnownTypes
    THEN incrDaily(store, kindOf(event.EventType), event.ChannelID, 1, t)
    ELSE incrDaily(store, "clicks", event.ChannelID, 1, t)

\* channel_service.go handleAttributionEvent: the daily counters after it.
handleAttributionEvent(store, event, t) ==
    IF event.EventType \in KnownTypes
    THEN incrDaily(store, kindOf(event.EventType), event.ChannelID, 1, t)
    ELSE store

\* channel_service.go handleConversionEvent: the daily counters after it.
handleConversionEvent(store, event, t) ==
    incrDaily(incrDaily(store, "conversions", event.ChannelID, 1, t),
              "revenue", event.ChannelID, event.Revenue, t)

\* channel_service.go calculateChannelStats
calculateChannelStats(store, channelID, t) ==
    LET clicks == RedisGetNumber(store, counterKey("clicks", channelID, t), t)
        convs ==
            RedisGetNumber(store, counterKey("conversions", channelID, t), t)
        revenue ==
            RedisGetNumber(store, counterKey("revenue", channelID, t), t)
    IN  [ChannelID |-> channelID,
         TotalClicks |-> clicks,
         TotalConversions |-> convs,
         ConversionRate |->
            IF clicks > 0
            THEN RMul(RDiv(Rat(convs, 1), Rat(clicks, 1)), Rat(100, 1))
            ELSE Zero,
         TotalRevenue |-> revenue,
         AverageOrderValue |->
            IF convs > 0 THEN RDiv(Rat(revenue, 1), Rat(convs, 1)) ELSE Zero,
         Period |-> Today(t)]

\* channel_service.go saveAttributionStats: db.Save of a record whose ID is
\* never set.  Save inserts when the primary key is the zero value, and the
\* insert fails (the error is logged) when a row with that key exists.
saveAttributionStats(table, stats, t) ==
    LET statsRecord == [ID |-> ""] @@ stats @@ [UpdatedAt |-> t]
    IN  IF \E i \in 1..Len(table) : table[i].ID = statsRecord.ID
        THEN table
        ELSE Append(table, statsRecord)

\* The loop of updateAttributionStats over the fetched channels.
RECURSIVE saveAll(_, _, _, _)
saveAll(table, store, fetched, t) ==
    IF fetched = <<>> THEN table
    ELSE saveAll(saveAttributionStats(
                     table, calculateChannelStats(store, Head(fetched).ID, t), t),
                 store, Tail(fetched), t)

\* channel_service.go updateAttributionStats, one run.  dbErr: the query for
\* the active channels fails.
updateAttributionStats(dbErr) ==
    LET fetched == SelectSeq(channels,
                             LAMBDA c : c.Status = "active" /\ c.IsActive)
    IN  attributionStats' =
            IF dbErr THEN attributionStats
            ELSE saveAll(attributionStats, dailyCounters, fetched, now)

\* ------------------------------------------------ TrackEvent, command by command

\* The queue processors, the rollup, the loops and the scorer probe.
loopVars ==
    <<dailyCounters, queues, attributionStats, ctxDone, loops, ticker, probe,
      channelCache>>

\* The goroutines serving HTTP requests.
Handlers == {"h1", "h2"}

IdleHandler == [pc |-> "idle", event |-> Nil]

\* channel_service.go TrackEvent up to db.Create, for an event with both
\* required fields.  Handler h goes on to updateUserAttributionPath, whose
\* Redis commands are separate round trips (the result of its LRANGE is not
\* used).
BeginTrackEvent(h, userID, dbErr) ==
    LET n == Len(events) + 1
        event == [ID |-> nextUUID, UserID |-> userID,
                  EventType |-> Workload(n).EventType,
                  ChannelID |-> Workload(n).ChannelID, Timestamp |-> now]
    IN  /\ goroutines[h].pc = "idle"
        /\ userID \in DOMAIN budget.events
        /\ budget.events[userID] > 0
        /\ IF dbErr
           THEN /\ lastTrack' =
                     [called |-> TRUE,
                      err |-> "failed to save attribution event"]
                /\ UNCHANGED <<nextUUID, events, budget, goroutines>>
           ELSE /\ events' = Append(events, event)
                /\ nextUUID' = nextUUID + 1
                /\ budget' = [budget EXCEPT !.events[userID] = @ - 1]
                /\ goroutines' =
                     [goroutines EXCEPT ![h] = [pc |-> "lpush", event |-> event]]
                /\ lastTrack' = NoCall
        /\ lastConversion' = NoCall
        /\ UNCHANGED <<now, attributionPaths, channelStats, conversions,
                       published>>
        /\ UNCHANGED matchOnly
        /\ UNCHANGED loopVars

\* updateUserAttributionPath: LPUSH of the touchpoint.
PathLPush(h) ==
    /\ goroutines[h].pc = "lpush"
    /\ attributionPaths' =
         RedisLPush(attributionPaths, goroutines[h].event.UserID,
                    touchpoint(goroutines[h].event), now)
    /\ goroutines' = [goroutines EXCEPT ![h].pc = "ltrim"]
    /\ UNCHANGED <<now, nextUUID, channelStats, events, conversions,
                   published, budget, lastTrack, lastConversion>>
    /\ UNCHANGED matchOnly
    /\ UNCHANGED loopVars

\* updateUserAttributionPath: LTRIM 0 9.
PathLTrim(h) ==
    /\ goroutines[h].pc = "ltrim"
    /\ attributionPaths' =
         RedisLTrim(attributionPaths, goroutines[h].event.UserID, PathStop, now)
    /\ goroutines' = [goroutines EXCEPT ![h].pc = "expire"]
    /\ UNCHANGED <<now, nextUUID, channelStats, events, conversions,
                   published, budget, lastTrack, lastConversion>>
    /\ UNCHANGED matchOnly
    /\ UNCHANGED loopVars

\* updateUserAttributionPath: EXPIRE; then TrackEvent publishes the event
\* and returns.
PathExpire(h) ==
    /\ goroutines[h].pc = "expire"
    /\ attributionPaths' =
         RedisExpire(attributionPaths, goroutines[h].event.UserID,
                     AttributionWindow, now)
    /\ published' = [published EXCEPT !.attribution_event = @ + 1]
    /\ lastTrack' = [called |-> TRUE, err |-> ""]
    /\ lastConversion' = NoCall
    /\ goroutines' = [goroutines EXCEPT ![h] = IdleHandler]
    /\ UNCHANGED <<now, nextUUID, channelStats, events, conversions, budget>>
    /\ UNCHANGED matchOnly
    /\ UNCHANGED loopVars

\* -------------------------------------------------------- channel directory

\* DEL key.
RedisDel(store, key) == [k \in DOMAIN store \ {key} |-> store[k]]

\* The rows of the table with the given id.
rowsByID(table, id) == SelectSeq(table, LAMBDA c : c.ID = id)

\* gorm Updates(updates): the named columns of the rows with the id are set.
applyUpdates(table, id, updates) ==
    [i \in DOMAIN table |->
        IF table[i].ID # id THEN table[i]
        ELSE [f \in DOMAIN table[i] |->
                IF f \in DOMAIN updates THEN updates[f] ELSE table[i][f]]]

\* channel_service.go GetChannelByID: read through the channel:<id> key.
\* dbErr: the query fails.  Gives whether a channel came back, the channel,
\* and the cache as the call leaves it.
GetChannelByID(cache, table, id, dbErr, t) ==
    IF RedisExists(cache, id, t)
    THEN [found |-> TRUE, channel |-> RedisGet(cache, id, t), cache |-> cache]
    ELSE IF dbErr \/ rowsByID(table, id) = <<>>
    THEN [found |-> FALSE, channel |-> Nil, cache |-> cache]
    ELSE [found |-> TRUE, channel |-> rowsByID(table, id)[1],
          cache |-> RedisSet(cache, id, rowsByID(table, id)[1],
                             ChannelCacheTTL, t)]

\* The column sets an update may carry.
Updates ==
    { [IsActive |-> FALSE], [IsActive |-> TRUE], [Status |-> "suspended"] }

\* The ids an update may name: c3 is the one channel for asset a2 and one of
\* four for asset a1, c9 is not in the table.
UpdatedIDs == {"c3", "c9"}

\* The requests made while channels are updated: four channels are eligible
\* for the first, one for the second.
DirectoryRequests ==
    { Request("a1", 1000, "u1", "US", "basic", "bank"),
      Request("a2", 1000, "u1", "US", "basic", "card") }

\* channel_service.go UpdateChannel, one call.  dbErr: the UPDATE fails;
\* readErr: the SELECT of GetChannelByID fails.
UpdateChannel(id, updates, dbErr, readErr) ==
    /\ budget.updates > 0
    /\ budget' = [budget EXCEPT !.updates = @ - 1]
    /\ IF dbErr
       THEN UNCHANGED <<channels, channelCache, published>>
       ELSE LET table == applyUpdates(channels, id, updates)
                got == GetChannelByID(RedisDel(channelCache, id), table, id,
                                      readErr, now)
            IN  /\ channels' = table
                /\ channelCache' = got.cache
                /\ published' =
                     IF got.found
                     THEN [published EXCEPT !.channel_updated = @ + 1]
                     ELSE published
    /\ UNCHANGED <<now, eligibleCache, redirects, nextUUID, calls, lastMatch,
                   lastRedirect, attributionPaths, channelStats, events,
                   conversions, lastTrack, lastConversion>>
    /\ UNCHANGED <<dailyCounters, queues, attributionStats, ctxDone, loops,
                   ticker, probe, goroutines>>

\* -------------------------------------------------------------- scorer probe

\* Channels with every combination of the flags the scorer reads, of the
\* four liquidity classes and of three fee schedules (free, mid-range, dear).
FlagChannels ==
    {[BaseChannel EXCEPT
        !.KYCRequired = kyc, !.MinimumNetWorth = worth,
        !.PaymentMethods = methods, !.HasTradingAPI = api, !.Chat = chat,
        !.Phone = phone, !.ResponseTime = response, !.Coverage = coverage,
        !.Segregation = segregation, !.Audits = audits, !.Type = type,
        !.Taker = TenThousandths(fees[1]), !.Crypto = Rat(fees[2], 1)] :
       kyc \in BOOLEAN, worth \in {0, 1},
       methods \in {<<>>, <<"bank", "card">>}, api \in BOOLEAN,
       chat \in BOOLEAN, phone \in {"", "+1"},
       response \in {"instant", "1hour", "24hours"}, coverage \in {0, 1000},
       segregation \in BOOLEAN, audits \in {0, 1},
       type \in {"exchange", "broker", "dex", "bank"},
       fees \in {<<0, 0>>, <<50, 5>>, <<200, 5>>}}

\* Channels with every fee schedule: taker rate in ten-thousandths (0, 0.0001,
\* 0.005, 0.01, 0.02) and flat withdrawal fee (a rebate, none, 5, 200).
FeeChannels ==
    {[BaseChannel EXCEPT !.Taker = TenThousandths(taker),
                         !.Crypto = Rat(crypto, 1)] :
       taker \in {0, 1, 50, 100, 200}, crypto \in {0 - 5, 0, 5, 200}}

\* The amounts requests ask for.
ProbeAmounts == {0, 100, 1000, 10000, 100000}

\* What the scorer is probed with: each flag combination for one amount with
\* and without a KYC level, and each fee schedule for each amount.
ProbeInputs ==
    {[channel |-> c, request |-> Request("a1", 10000, "u1", "US", kyc, "card")] :
       c \in FlagChannels, kyc \in {NoKYC, "basic"}}
    \cup
    {[channel |-> c, request |-> Request("a1", amount, "u1", "US", NoKYC, "card")] :
       c \in FeeChannels, amount \in ProbeAmounts}

\* The scorer runs on the probe: calculateChannelMatch builds the result.
ScoreProbe ==
    /\ ~probe.scored
    /\ probe' = [probe EXCEPT
                   !.scored = TRUE,
                   !.result = calculateChannelMatch(probe.channel,
                                                    probe.request, nextUUID, now)]
    /\ UNCHANGED handlerVars
    /\ UNCHANGED <<budget, dailyCounters, queues, attributionStats, ctxDone,
                   loops, ticker, goroutines, channelCache>>

\* --------------------------------------------------------- background loops

\* A queue item: json is whether json.Unmarshal accepts the string, the
\* other fields are what it decodes to.
QueueItem(json, eventType, channelID, revenue) ==
    [json |-> json, EventType |-> eventType, ChannelID |-> channelID,
     Revenue |-> revenue]

\* A queue item json.Unmarshal rejects.
Poison == QueueItem(FALSE, "", "", 0)

\* What a producer outside this service may push onto a processor queue.
QueueItems(l) ==
    IF l = "events"
    THEN {QueueItem(TRUE, "click", "A", 0), QueueItem(TRUE, "hover", "A", 0),
          Poison}
    ELSE {QueueItem(TRUE, "", "A", 10), Poison}

\* RPUSH by a producer outside this service.
Enqueue(l, item) ==
    /\ budget.queued > 0
    /\ budget' = [budget EXCEPT !.queued = @ - 1]
    /\ queues' = [queues EXCEPT ![l] = Append(@, item)]
    /\ UNCHANGED handlerVars
    /\ UNCHANGED <<dailyCounters, attributionStats, ctxDone, loops, ticker,
                   probe, goroutines,
                   channelCache>>

\* Variant of ProcessorStep whose select never takes the ctx.Done() case.
ProcessorStepIgnoreDone(l, cancelled) ==
    /\ loops[l] = "blpop"
    /\ cancelled => ctxDone
    /\ IF cancelled \/ queues[l] = <<>>
       THEN /\ ctxDone
            /\ UNCHANGED <<queues, dailyCounters>>
       ELSE /\ queues' = [queues EXCEPT ![l] = Tail(@)]
            /\ dailyCounters' =
                 IF ~Head(queues[l]).json THEN dailyCounters
                 ELSE IF l = "events"
                 THEN handleAttributionEvent(dailyCounters, Head(queues[l]), now)
                 ELSE handleConversionEvent(dailyCounters, Head(queues[l]), now)
    /\ UNCHANGED loops
    /\ UNCHANGED handlerVars
    /\ UNCHANGED <<budget, attributionStats, ctxDone, ticker, probe, goroutines,
                   channelCache>>

\* processAttributionEvents / processConversionEvents, one iteration of a
\* loop that waits in BLPop.  BLPop returns the head, which is handled unless
\* it fails to parse, or redis.Nil after the timeout; then the select returns
\* when the context is done and calls BLPop again otherwise.  A BLPop in
\* flight is not interrupted by the cancellation, so an item may still be
\* popped after it.  (A timeout with the context not done changes nothing.)
\* cancelled: the context was done before BLPop was issued; BLPop fails at
\* once, the error is logged and the select returns.
ProcessorStep(l, cancelled) ==
    /\ loops[l] = "blpop"
    /\ cancelled => ctxDone
    /\ IF cancelled \/ queues[l] = <<>>
       THEN /\ ctxDone
            /\ UNCHANGED <<queues, dailyCounters>>
       ELSE /\ queues' = [queues EXCEPT ![l] = Tail(@)]
            /\ dailyCounters' =
                 IF ~Head(queues[l]).json THEN dailyCounters
                 ELSE IF l = "events"
                 THEN handleAttributionEvent(dailyCounters, Head(queues[l]), now)
                 ELSE handleConversionEvent(dailyCounters, Head(queues[l]), now)
    /\ loops' = [loops EXCEPT ![l] = IF ctxDone THEN "returned" ELSE "blpop"]
    /\ UNCHANGED handlerVars
    /\ UNCHANGED <<budget, attributionStats, ctxDone, ticker, probe, goroutines,
                   channelCache>>

\* A time.Ticker delivers a tick; ticker.C holds one tick at most.
TickerFire(l) ==
    /\ ~ticker[l]
    /\ ticker' = [ticker EXCEPT ![l] = TRUE]
    /\ UNCHANGED handlerVars
    /\ UNCHANGED <<budget, dailyCounters, queues, attributionStats, ctxDone,
                   loops, probe, goroutines,
                   channelCache>>

\* calculateAttributionStats at the select: when both cases are ready Go
\* picks either.  The tick runs updateAttributionStats.
RollupSelect(done, dbErr) ==
    /\ loops["rollup"] = "select"
    /\ IF done
       THEN /\ ctxDone
            /\ loops' = [loops EXCEPT !["rollup"] = "returned"]
            /\ UNCHANGED <<ticker, attributionStats>>
       ELSE /\ ticker["rollup"]
            /\ ticker' = [ticker EXCEPT !["rollup"] = FALSE]
            /\ updateAttributionStats(dbErr)
            /\ UNCHANGED loops
    /\ UNCHANGED handlerVars
    /\ UNCHANGED <<budget, dailyCounters, queues, ctxDone, probe, goroutines,
                   channelCache>>

\* main.go: the context handed to the background loops is cancelled.
Cancel ==
    /\ ~ctxDone
    /\ ctxDone' = TRUE
    /\ UNCHANGED handlerVars
    /\ UNCHANGED <<budget, dailyCounters, queues, attributionStats, loops,
                   ticker, probe, goroutines,
                   channelCache>>

\* An item of matching:queue: a request, or bytes that do not parse.
MatchingItem(json, request) == [json |-> json, request |-> request]

\* handlers.go StartMatchingEngine at the select: when both cases are ready Go
\* picks either.  The tick starts a drain of matching:queue.
StartMatchingEngine(done) ==
    /\ loops["matching"] = "select"
    /\ IF done
       THEN /\ ctxDone
            /\ loops' = [loops EXCEPT !["matching"] = "returned"]
            /\ UNCHANGED ticker
       ELSE /\ ticker["matching"]
            /\ ticker' = [ticker EXCEPT !["matching"] = FALSE]
            /\ loops' = [loops EXCEPT !["matching"] = "blpop"]
    /\ UNCHANGED handlerVars
    /\ UNCHANGED <<budget, dailyCounters, queues, attributionStats, ctxDone,
                   probe, goroutines,
                   channelCache>>

\* Variant of processMatchingQueue that ends the drain at bytes that do not
\* parse.
processMatchingQueueBreak(cancelled, dbErr) ==
    /\ loops["matching"] = "blpop"
    /\ cancelled => ctxDone
    /\ IF cancelled \/ queues["matching"] = <<>>
       THEN /\ loops' = [loops EXCEPT !["matching"] = "select"]
            /\ UNCHANGED <<queues, eligibleCache, redirects, nextUUID,
                           lastMatch, published>>
       ELSE /\ queues' = [queues EXCEPT !["matching"] = Tail(@)]
            /\ loops' = [loops EXCEPT !["matching"] =
                            IF ctxDone \/ ~Head(queues["matching"]).json
                            THEN "select" ELSE "blpop"]
            /\ IF ~Head(queues["matching"]).json
               THEN /\ published' =
                         [published EXCEPT !.matching_errors = @ + 1]
                    /\ UNCHANGED <<eligibleCache, redirects, nextUUID,
                                   lastMatch>>
               ELSE LET request == Head(queues["matching"]).request
                        got == getEligibleChannels(
                                   eligibleCache, channels, request.AssetID,
                                   request.UserRegion, dbErr, now)
                        err == matchError(got)
                        scored == IF err = ""
                                  THEN scoreAll(got.channels, request,
                                                nextUUID, now)
                                  ELSE <<>>
                        kept == SelectSeq(scored, meetsMinimum)
                    IN  /\ eligibleCache' = got.cache
                        /\ redirects' = cacheAll(redirects, scored, request, now)
                        /\ nextUUID' = nextUUID + Len(scored)
                        /\ \E sorted \in sortSlice(kept) :
                             lastMatch' =
                                [called |-> TRUE, request |-> request,
                                 hit |-> got.hit, dbFailed |-> got.err,
                                 eligible |-> [i \in DOMAIN got.channels |->
                                                 got.channels[i].ID],
                                 scored |-> scored, err |-> err,
                                 results |-> IF err = "" THEN truncate(sorted)
                                             ELSE <<>>]
                        /\ published' =
                             IF err = ""
                             THEN [published EXCEPT !.matching_completed = @ + 1]
                             ELSE [published EXCEPT !.matching_errors = @ + 1]
    /\ UNCHANGED <<now, channels, calls, lastRedirect, attributionPaths,
                   channelStats, events, conversions, lastTrack,
                   lastConversion>>
    /\ UNCHANGED <<budget, dailyCounters, attributionStats, ctxDone, ticker,
                   probe, goroutines,
                   channelCache>>

\* handlers.go processMatchingQueue, one iteration of the drain.  BLPop
\* returns redis.Nil on an empty queue and an error when the context was done
\* before it was issued (cancelled): both break.  Otherwise the head is
\* popped; bytes that do not parse and requests MatchChannels rejects are
\* skipped with a line in the error log (counted in matching_errors), the
\* results of the others are published.  After an item the next BLPop is
\* issued, which fails at once when the context is done by then.
processMatchingQueue(cancelled, dbErr) ==
    /\ loops["matching"] = "blpop"
    /\ cancelled => ctxDone
    /\ IF cancelled \/ queues["matching"] = <<>>
       THEN /\ loops' = [loops EXCEPT !["matching"] = "select"]
            /\ UNCHANGED <<queues, eligibleCache, redirects, nextUUID,
                           lastMatch, published>>
       ELSE /\ queues' = [queues EXCEPT !["matching"] = Tail(@)]
            /\ loops' = [loops EXCEPT !["matching"] =
                            IF ctxDone THEN "select" ELSE "blpop"]
            /\ IF ~Head(queues["matching"]).json
               THEN /\ published' =
                         [published EXCEPT !.matching_errors = @ + 1]
                    /\ UNCHANGED <<eligibleCache, redirects, nextUUID,
                                   lastMatch>>
               ELSE LET request == Head(queues["matching"]).request
                        got == getEligibleChannels(
                                   eligibleCache, channels, request.AssetID,
                                   request.UserRegion, dbErr, now)
                        err == matchError(got)
                        scored == IF err = ""
                                  THEN scoreAll(got.channels, request,
                                                nextUUID, now)
                                  ELSE <<>>
                        kept == SelectSeq(scored, meetsMinimum)
                    IN  /\ eligibleCache' = got.cache
                        /\ redirects' = cacheAll(redirects, scored, request, now)
                        /\ nextUUID' = nextUUID + Len(scored)
                        /\ \E sorted \in sortSlice(kept) :
                             lastMatch' =
                                [called |-> TRUE, request |-> request,
                                 hit |-> got.hit, dbFailed |-> got.err,
                                 eligible |-> [i \in DOMAIN got.channels |->
                                                 got.channels[i].ID],
                                 scored |-> scored, err |-> err,
                                 results |-> IF err = "" THEN truncate(sorted)
                                             ELSE <<>>]
                        /\ published' =
                             IF err = ""
                             THEN [published EXCEPT !.matching_completed = @ + 1]
                             ELSE [published EXCEPT !.matching_errors = @ + 1]
    /\ UNCHANGED <<now, channels, calls, lastRedirect, attributionPaths,
                   channelStats, events, conversions, lastTrack,
                   lastConversion>>
    /\ UNCHANGED <<budget, dailyCounters, attributionStats, ctxDone, ticker,
                   probe, goroutines,
                   channelCache>>

\* channel_service.go StartChannelSync at the select.  The tick starts a
\* synchronization cycle.
StartChannelSync(done) ==
    /\ loops["sync"] = "select"
    /\ IF done
       THEN /\ ctxDone
            /\ loops' = [loops EXCEPT !["sync"] = "returned"]
            /\ UNCHANGED ticker
       ELSE /\ ticker["sync"]
            /\ ticker' = [ticker EXCEPT !["sync"] = FALSE]
            /\ loops' = [loops EXCEPT !["sync"] = "sync"]
    /\ UNCHANGED handlerVars
    /\ UNCHANGED <<budget, dailyCounters, queues, attributionStats, ctxDone,
                   probe, goroutines,
                   channelCache>>

\* channel_service.go syncChannel: the result for one channel.  The sync
\* functions of the three supported types only log (the channels have no
\* exchange name with a sync of its own); any other type is an error.
syncChannel(ch) ==
    [ChannelID |-> ch.ID, Success |-> ch.Type \in {"exchange", "broker", "dex"}]

\* The channel:<id> keys after the successfully synced channels of a cycle
\* have been written by updateChannelCache.
RECURSIVE cacheSynced(_, _, _)
cacheSynced(cache, fetched, t) ==
    IF fetched = <<>> THEN cache
    ELSE cacheSynced(IF syncChannel(Head(fetched)).Success
                     THEN RedisSet(cache, Head(fetched).ID, Head(fetched),
                                   ChannelCacheTTL, t)
                     ELSE cache,
                     Tail(fetched), t)

\* channel_service.go syncAllChannels, one cycle from the query to the sync
\* event.  The cycle does not look at the context.  last_synced_at is not
\* among the columns of the modelled rows.
syncAllChannels(dbErr) ==
    /\ loops["sync"] = "sync"
    /\ LET fetched == SelectSeq(channels,
                                LAMBDA c : c.Status = "active" /\ c.IsActive)
       IN  IF dbErr \/ fetched = <<>>
           THEN UNCHANGED <<published, channelCache>>
           ELSE /\ published' =
                     [published EXCEPT !.channel_sync_completed = @ + 1]
                /\ channelCache' = cacheSynced(channelCache, fetched, now)
    /\ loops' = [loops EXCEPT !["sync"] = "select"]
    /\ UNCHANGED <<now, channels, eligibleCache, redirects, nextUUID, calls,
                   lastMatch, lastRedirect, attributionPaths, channelStats,
                   events, conversions, lastTrack, lastConversion>>
    /\ UNCHANGED <<budget, dailyCounters, queues, attributionStats, ctxDone,
                   ticker, probe, goroutines>>

\* ------------------------------------------- sync cycle, goroutine by goroutine

\* No cycle in progress; maxConcurrentSyncs is config.MaxConcurrentSyncs.
NoCycle(maxConcurrentSyncs) ==
    [main |-> "idle", maxConcurrentSyncs |-> maxConcurrentSyncs,
     fetched |-> <<>>, workers |-> <<>>, semaphore |-> 0, wg |-> 0,
     results |-> <<>>, closed |-> FALSE, closer |-> "none",
     successCount |-> 0, errorCount |-> 0]

\* syncAllChannels up to the channels it creates.  dbErr: the query fails.
\* With a failed query or no active channel the cycle returns.
SyncQuery(dbErr) ==
    /\ loops["sync"] = "sync"
    /\ goroutines.main = "idle"
    /\ LET fetched == SelectSeq(channels,
                                LAMBDA c : c.Status = "active" /\ c.IsActive)
       IN  IF dbErr \/ fetched = <<>>
           THEN /\ loops' = [loops EXCEPT !["sync"] = "select"]
                /\ UNCHANGED goroutines
           ELSE /\ goroutines' =
                     [NoCycle(goroutines.maxConcurrentSyncs) EXCEPT
                        !.main = "spawn", !.fetched = fetched]
                /\ UNCHANGED loops
    /\ UNCHANGED handlerVars
    /\ UNCHANGED <<budget, dailyCounters, queues, attributionStats, ctxDone,
                   ticker, probe, channelCache>>

\* The frame of a step inside the cycle that touches the goroutines only.
CycleFrame ==
    /\ UNCHANGED handlerVars
    /\ UNCHANGED <<budget, dailyCounters, queues, attributionStats, ctxDone,
                   loops, ticker, probe, channelCache>>

\* The for loop: wg.Add(1) and the go statement for the next channel.
SyncSpawn ==
    /\ goroutines.main = "spawn"
    /\ Len(goroutines.workers) < Len(goroutines.fetched)
    /\ goroutines' =
         [goroutines EXCEPT
            !.wg = @ + 1,
            !.workers = Append(@, [pc |-> "acquire", result |-> Nil])]
    /\ CycleFrame

\* The go statement of the goroutine that waits and closes; the cycle goes
\* on to range over results.
SyncSpawnCloser ==
    /\ goroutines.main = "spawn"
    /\ Len(goroutines.workers) = Len(goroutines.fetched)
    /\ goroutines' = [goroutines EXCEPT !.closer = "wait", !.main = "range"]
    /\ CycleFrame

\* Variant of WorkerAcquire that does not wait for a free slot.
WorkerAcquireUnbounded(i) ==
    /\ i \in DOMAIN goroutines.workers
    /\ goroutines.workers[i].pc = "acquire"
    /\ goroutines' = [goroutines EXCEPT !.semaphore = @ + 1,
                                        !.workers[i].pc = "sync"]
    /\ CycleFrame

\* semaphore <- struct{}{}: blocks while the buffer is full.
WorkerAcquire(i) ==
    /\ i \in DOMAIN goroutines.workers
    /\ goroutines.workers[i].pc = "acquire"
    /\ goroutines.semaphore < goroutines.maxConcurrentSyncs
    /\ goroutines' = [goroutines EXCEPT !.semaphore = @ + 1,
                                        !.workers[i].pc = "sync"]
    /\ CycleFrame

\* result := s.syncChannel(ctx, ch); a success is written to channel:<id>.
WorkerSync(i) ==
    /\ i \in DOMAIN goroutines.workers
    /\ goroutines.workers[i].pc = "sync"
    /\ LET ch == goroutines.fetched[i]
           result == syncChannel(ch)
       IN  /\ goroutines' = [goroutines EXCEPT !.workers[i] =
                                [pc |-> "send", result |-> result]]
           /\ channelCache' =
                IF result.Success
                THEN RedisSet(channelCache, ch.ID, ch, ChannelCacheTTL, now)
                ELSE channelCache
    /\ UNCHANGED handlerVars
    /\ UNCHANGED <<budget, dailyCounters, queues, attributionStats, ctxDone,
                   loops, ticker, probe>>

\* results <- result: blocks while the buffer (len(channels)) is full.
WorkerSend(i) ==
    /\ i \in DOMAIN goroutines.workers
    /\ goroutines.workers[i].pc = "send"
    /\ Len(goroutines.results) < Len(goroutines.fetched)
    /\ goroutines' =
         [goroutines EXCEPT
            !.results = Append(@, goroutines.workers[i].result),
            !.workers[i].pc = "release"]
    /\ CycleFrame

\* The deferred <-semaphore.
WorkerRelease(i) ==
    /\ i \in DOMAIN goroutines.workers
    /\ goroutines.workers[i].pc = "release"
    /\ goroutines.semaphore > 0
    /\ goroutines' = [goroutines EXCEPT !.semaphore = @ - 1,
                                        !.workers[i].pc = "done"]
    /\ CycleFrame

\* The deferred wg.Done().
WorkerDone(i) ==
    /\ i \in DOMAIN goroutines.workers
    /\ goroutines.workers[i].pc = "done"
    /\ goroutines' = [goroutines EXCEPT !.wg = @ - 1,
                                        !.workers[i].pc = "exited"]
    /\ CycleFrame

\* wg.Wait() returns when the counter is zero; close(results).
CloseResults ==
    /\ goroutines.closer = "wait"
    /\ goroutines.wg = 0
    /\ goroutines' = [goroutines EXCEPT !.closed = TRUE, !.closer = "exited"]
    /\ CycleFrame

\* One iteration of for result := range results.
Collect ==
    /\ goroutines.main = "range"
    /\ goroutines.results # <<>>
    /\ goroutines' =
         [goroutines EXCEPT
            !.results = Tail(@),
            !.successCount =
                IF Head(goroutines.results).Success THEN @ + 1 ELSE @,
            !.errorCount =
                IF Head(goroutines.results).Success THEN @ ELSE @ + 1]
    /\ CycleFrame

\* The range ends on the closed, empty channel.
CollectEnd ==
    /\ goroutines.main = "range"
    /\ goroutines.results = <<>>
    /\ goroutines.closed
    /\ goroutines' = [goroutines EXCEPT !.main = "publish"]
    /\ CycleFrame

\* publishSyncEvent(successCount, errorCount); syncAllChannels returns.
PublishSyncEvent ==
    /\ goroutines.main = "publish"
    /\ published' = [published EXCEPT !.channel_sync_completed = @ + 1]
    /\ goroutines' = NoCycle(goroutines.maxConcurrentSyncs)
    /\ loops' = [loops EXCEPT !["sync"] = "select"]
    /\ UNCHANGED <<now, channels, eligibleCache, redirects, nextUUID, calls,
                   lastMatch, lastRedirect, attributionPaths, channelStats,
                   events, conversions, lastTrack, lastConversion>>
    /\ UNCHANGED <<budget, dailyCounters, queues, attributionStats, ctxDone,
                   ticker, probe, channelCache>>

\* ------------------------------------------------------------ specifications

\* The clock advances by one tick.
Tick ==
    /\ now < MaxTime
    /\ now' = now + 1
    /\ lastRedirect' = NoRedirect
    /\ lastTrack' = NoCall
    /\ lastConversion' = NoCall
    /\ UNCHANGED <<channels, eligibleCache, redirects, nextUUID, calls,
                   lastMatch, attributionPaths, channelStats, events,
                   conversions, published, budget>>

MatchInit ==
    /\ channels = Catalogue
    /\ eligibleCache = <<>>
    /\ redirects = <<>>
    /\ calls = 0
    /\ lastMatch = NoMatch
    /\ lastRedirect = NoRedirect

AttrInit ==
    /\ now = 0
    /\ nextUUID = 1
    /\ attributionPaths = <<>>
    /\ channelStats = <<>>
    /\ events = <<>>
    /\ conversions = <<>>
    /\ published = [attribution_event |-> 0, conversion_event |-> 0]
    /\ lastTrack = NoCall
    /\ lastConversion = NoCall

\* The background loops.
Loops == {"matching", "events", "conversions", "rollup", "sync"}

\* The loops that wait on a time.Ticker.
TickerLoops == {"matching", "rollup", "sync"}

NoProbe == [scored |-> FALSE]

\* No call and no worker is in progress.
NoGoroutines == <<>>

\* Nothing queued, no counter, no snapshot, no loop started.
LoopsIdle ==
    /\ dailyCounters = <<>>
    /\ queues = [matching |-> <<>>, events |-> <<>>, conversions |-> <<>>]
    /\ attributionStats = <<>>
    /\ ctxDone = FALSE
    /\ loops = [l \in Loops |-> "idle"]
    /\ ticker = [l \in TickerLoops |-> FALSE]

AuxInit ==
    /\ LoopsIdle
    /\ probe = NoProbe
    /\ goroutines = NoGoroutines
    /\ channelCache = <<>>

\* The n-th event of a user who tracks the workload's events at tick t.
eventAt(n, userID, t) ==
    [ID |-> n, UserID |-> userID, EventType |-> Workload(n).EventType,
     ChannelID |-> Workload(n).ChannelID, Timestamp |-> t]

\* The attribution_path:* keys after the user has tracked the first n events
\* of the workload at tick t.
RECURSIVE pathsAfter(_, _, _)
pathsAfter(n, userID, t) ==
    IF n = 0 THEN <<>>
    ELSE updateUserAttributionPath(pathsAfter(n - 1, userID, t),
                                   eventAt(n, userID, t), t)

\* From an empty store one user tracks up to MaxEvents events.
Init ==
    /\ MatchInit
    /\ AttrInit
    /\ AuxInit
    /\ budget = [events |-> [u \in {"u1"} |-> MaxEvents], conversions |-> 0]

\* The empty store, or the state after one user has tracked PreEvents events
\* at tick 0: up to MoreEvents events and MaxConversions conversions follow.
InitTracked ==
    /\ MatchInit
    /\ AuxInit
    /\ now = 0
    /\ \E pre \in {0, PreEvents} :
         /\ nextUUID = pre + 1
         /\ attributionPaths = pathsAfter(pre, "u1", 0)
         /\ events = [n \in 1..pre |-> eventAt(n, "u1", 0)]
         /\ published = [attribution_event |-> pre, conversion_event |-> 0]
    /\ channelStats = <<>>
    /\ conversions = <<>>
    /\ lastTrack = NoCall
    /\ lastConversion = NoCall
    /\ budget = [events |-> [u \in {"u1"} |-> MoreEvents],
                 conversions |-> MaxConversions]

\* The channels the counter runs know: A and B are active, C is not.
StatChannels ==
    <<[BaseChannel EXCEPT !.ID = "A"], [BaseChannel EXCEPT !.ID = "B"],
      [BaseChannel EXCEPT !.ID = "C", !.IsActive = FALSE]>>

\* The service with the two queue processors and the rollup started, after
\* one user has tracked the workload's events before the first of unknown
\* type at tick 0: that event and MaxQueued queue items follow.
InitQueues ==
    /\ now = 0
    /\ nextUUID = FirstUnknown
    /\ attributionPaths = pathsAfter(FirstUnknown - 1, "u1", 0)
    /\ events = [n \in 1..(FirstUnknown - 1) |-> eventAt(n, "u1", 0)]
    /\ published = [attribution_event |-> FirstUnknown - 1,
                    conversion_event |-> 0]
    /\ channelStats = <<>>
    /\ conversions = <<>>
    /\ lastTrack = NoCall
    /\ lastConversion = NoCall
    /\ channels = StatChannels
    /\ eligibleCache = <<>>
    /\ redirects = <<>>
    /\ calls = 0
    /\ lastMatch = NoMatch
    /\ lastRedirect = NoRedirect
    /\ dailyCounters = <<>>
    /\ queues = [matching |-> <<>>, events |-> <<>>, conversions |-> <<>>]
    /\ attributionStats = <<>>
    /\ ctxDone = FALSE
    /\ loops = [l \in Loops |->
                  IF l \in {"events", "conversions"} THEN "blpop"
                  ELSE IF l = "rollup" THEN "select" ELSE "idle"]
    /\ ticker = [l \in TickerLoops |-> FALSE]
    /\ probe = NoProbe
    /\ goroutines = NoGoroutines
    /\ channelCache = <<>>
    /\ budget = [events |-> [u \in {"u1"} |-> 1], conversions |-> 0,
                 queued |-> MaxQueued]

\* The scorer is handed one probe.
InitProbe ==
    /\ MatchInit
    /\ AttrInit
    /\ LoopsIdle
    /\ budget = [events |-> [u \in {"u1"} |-> 0], conversions |-> 0]
    /\ \E input \in ProbeInputs :
         probe = [scored |-> FALSE, channel |-> input.channel,
                  request |-> input.request, result |-> Nil]
    /\ goroutines = NoGoroutines
    /\ channelCache = <<>>

ProbeNext == ScoreProbe

\* What producers push onto the three queues while the loops run.
LoopItems(l) ==
    IF l = "matching"
    THEN {MatchingItem(TRUE, Request("a1", 10000, "u1", "US", NoKYC, "card")),
          MatchingItem(FALSE, Nil)}
    ELSE IF l = "events" THEN {QueueItem(TRUE, "click", "A", 0)}
    ELSE {QueueItem(TRUE, "", "A", 10)}

\* main.go: all five loops have been started; the channel sync begins with a
\* cycle, the others wait.  MaxLoopItems items are pushed onto the queues.
InitLoops ==
    /\ MatchInit
    /\ now = 0
    /\ nextUUID = 1
    /\ attributionPaths = <<>>
    /\ channelStats = <<>>
    /\ events = <<>>
    /\ conversions = <<>>
    /\ published = [attribution_event |-> 0, conversion_event |-> 0,
                    matching_completed |-> 0, matching_errors |-> 0,
                    channel_sync_completed |-> 0]
    /\ lastTrack = NoCall
    /\ lastConversion = NoCall
    /\ dailyCounters = <<>>
    /\ queues = [matching |-> <<>>, events |-> <<>>, conversions |-> <<>>]
    /\ attributionStats = <<>>
    /\ ctxDone = FALSE
    /\ loops = [l \in Loops |->
                  IF l \in {"events", "conversions"} THEN "blpop"
                  ELSE IF l = "sync" THEN "sync" ELSE "select"]
    /\ ticker = [l \in TickerLoops |-> FALSE]
    /\ probe = NoProbe
    /\ goroutines = NoGoroutines
    /\ channelCache = <<>>
    /\ budget = [events |-> [u \in {"u1"} |-> 0], conversions |-> 0,
                 queued |-> MaxLoopItems]

LoopsNext ==
    \/ Cancel
    \/ \E l \in DOMAIN queues : \E item \in LoopItems(l) : Enqueue(l, item)
    \/ \E l \in TickerLoops :
         /\ l = "sync" => published.channel_sync_completed < MaxSyncEvents
         /\ TickerFire(l)
    \/ \E l \in {"events", "conversions"}, cancelled \in BOOLEAN :
         ProcessorStep(l, cancelled)
    \/ \E done \in BOOLEAN, dbErr \in BOOLEAN : RollupSelect(done, dbErr)
    \/ \E done \in BOOLEAN : StartMatchingEngine(done)
    \/ \E cancelled \in BOOLEAN, dbErr \in BOOLEAN :
         processMatchingQueue(cancelled, dbErr)
    \/ \E done \in BOOLEAN : StartChannelSync(done)
    \/ \E dbErr \in BOOLEAN : syncAllChannels(dbErr)

\* Two handlers serve calls at once.  One user has tracked PathStop + 1
\* events at tick 0, which fill the path; that user tracks MaxRaceEvents
\* more, a second user one, and MaxConversions conversions are tracked.
InitRace ==
    /\ MatchInit
    /\ LoopsIdle
    /\ probe = NoProbe
    /\ now = 0
    /\ nextUUID = PathStop + 2
    /\ attributionPaths = pathsAfter(PathStop + 1, "u1", 0)
    /\ events = [n \in 1..(PathStop + 1) |-> eventAt(n, "u1", 0)]
    /\ published = [attribution_event |-> PathStop + 1, conversion_event |-> 0]
    /\ channelStats = <<>>
    /\ conversions = <<>>
    /\ lastTrack = NoCall
    /\ lastConversion = NoCall
    /\ goroutines = [h \in Handlers |-> IdleHandler]
    /\ channelCache = <<>>
    /\ budget = [events |-> [u \in Users |->
                               IF u = "u1" THEN MaxRaceEvents ELSE 1],
                 conversions |-> MaxConversions]

RaceNext ==
    \/ \E h \in Handlers, userID \in Users, dbErr \in BOOLEAN :
         BeginTrackEvent(h, userID, dbErr)
    \/ \E h \in Handlers : PathLPush(h)
    \/ \E h \in Handlers : PathLTrim(h)
    \/ \E h \in Handlers : PathExpire(h)
    \/ /\ \E userID \in Users, channelID \in {"A", "B"}, dbErr \in BOOLEAN :
            TrackConversion(userID, channelID, dbErr)
       /\ UNCHANGED auxVars
    \/ Tick /\ UNCHANGED auxVars

MatchNext ==
    \/ /\ \E request \in Requests, dbErr \in BOOLEAN :
            MatchChannels(request, dbErr)
       /\ UNCHANGED auxVars
    \/ /\ \E redirectID \in 1..nextUUID : GetRedirectInfo(redirectID)
       /\ UNCHANGED auxVars
    \/ Tick /\ UNCHANGED auxVars

TrackNext ==
    \/ /\ \E userID \in Users \cup {NoUser}, typed \in BOOLEAN,
             dbErr \in BOOLEAN :
            TrackEventCall(userID, typed, dbErr)
       /\ UNCHANGED auxVars
    \/ Tick /\ UNCHANGED auxVars

ConvertNext ==
    \/ /\ \E userID \in Users \cup {NoUser}, typed \in BOOLEAN,
             dbErr \in BOOLEAN :
            TrackEventCall(userID, typed, dbErr)
       /\ UNCHANGED auxVars
    \/ /\ \E userID \in Users, channelID \in {"A", "B"}, dbErr \in BOOLEAN :
            TrackConversion(userID, channelID, dbErr)
       /\ UNCHANGED auxVars
    \/ Tick /\ UNCHANGED auxVars

QueuesNext ==
    \/ /\ \E dbErr \in BOOLEAN : TrackEventCall("u1", TRUE, dbErr)
       /\ UNCHANGED auxVars
    \/ \E l \in {"events", "conversions"} :
         \E item \in QueueItems(l) : Enqueue(l, item)
    \/ \E l \in {"events", "conversions"} : ProcessorStep(l, FALSE)
    \/ TickerFire("rollup")
    \/ \E dbErr \in BOOLEAN : RollupSelect(FALSE, dbErr)
    \/ Tick /\ UNCHANGED auxVars

\* The matching engine and the redirect token store.
Spec == Init /\ [][MatchNext]_vars

\* The attribution tracker, from an empty store.
SpecTrack == Init /\ [][TrackNext]_vars

\* The attribution tracker and the conversion aggregator, from an empty store
\* and from a path that holds PreEvents touchpoints.
SpecConvert == InitTracked /\ [][ConvertNext]_vars

\* The match scorer, on one channel and one request.
SpecProbe == InitProbe /\ [][ProbeNext]_vars

\* The five background loops and the cancellation of their context.
SpecLoops == InitLoops /\ [][LoopsNext]_vars

\* The loops under the scheduling Go gives them.  A goroutine that can take
\* a step takes it: a BLPop returns after its timeout, a BLPop issued on a
\* cancelled context fails at once, a sync cycle ends, a select with only
\* ctx.Done() ready takes it.  A select that is reached again and again with
\* ctx.Done() ready takes that case at some point, the choice among ready
\* cases being random.
FairLoops ==
    /\ SpecLoops
    /\ \A l \in {"events", "conversions"} :
         WF_vars(\E cancelled \in BOOLEAN : ProcessorStep(l, cancelled))
    /\ WF_vars(processMatchingQueue(TRUE, FALSE))
    /\ WF_vars(\E dbErr \in BOOLEAN : syncAllChannels(dbErr))
    /\ WF_vars(RollupSelect(TRUE, FALSE))
    /\ SF_vars(StartMatchingEngine(TRUE))
    /\ SF_vars(StartChannelSync(TRUE))

\* TrackEvent calls of two handlers interleaved command by command, with
\* conversions.
SpecRace == InitRace /\ [][RaceNext]_vars

\* The tracker, the two queue processors and the hourly rollup.
SpecQueues == InitQueues /\ [][QueuesNext]_vars

\* ======================================================== claims C1 - C7

\* The candidates of the last call: the results the scoring loop built whose
\* score reaches the threshold, in fetch order.
Candidates == SelectSeq(lastMatch.scored,
                        LAMBDA r : RLe(MinMatchingScore, r.MatchScore))

Returned == lastMatch.called /\ lastMatch.err = ""

MinOf(a, b) == IF a < b THEN a ELSE b

\* C1: no result whose Availability.Available is false appears in the list
\* MatchChannels returns, whatever its score.  (The code never looks at
\* Availability when it filters: TLC finds this violated.)
C1_UnavailableNeverReturned ==
    lastMatch.called =>
        \A i \in DOMAIN lastMatch.results :
            lastMatch.results[i].Availability.Available

\* C2: the list MatchChannels returns is ordered by non-increasing score.
C2_NonIncreasingScore ==
    lastMatch.called =>
        \A i \in 1..(Len(lastMatch.results) - 1) :
            RLe(lastMatch.results[i + 1].MatchScore,
                lastMatch.results[i].MatchScore)

\* A returned list whose first two results have different scores and came
\* in the opposite order from the store.
C2_Witness ==
    /\ Returned
    /\ Len(lastMatch.results) >= 2
    /\ RLt(lastMatch.results[2].MatchScore, lastMatch.results[1].MatchScore)
    /\ lastMatch.results[2].RedirectID < lastMatch.results[1].RedirectID

\* C3: MatchChannels returns exactly min(MaxMatchingResults, k) of the k
\* candidates scoring at least MinMatchingScore, each once, and no omitted
\* candidate scores strictly higher than a returned one.
C3_TopCandidates ==
    Returned =>
        LET res == lastMatch.results
            ids == { res[j].RedirectID : j \in DOMAIN res }
        IN  /\ Len(res) = MinOf(MaxMatchingResults, Len(Candidates))
            /\ Cardinality(ids) = Len(res)
            /\ \A j \in DOMAIN res :
                 /\ RLe(MinMatchingScore, res[j].MatchScore)
                 /\ \E i \in DOMAIN Candidates : Candidates[i] = res[j]
            /\ \A i \in DOMAIN Candidates :
                 Candidates[i].RedirectID \notin ids =>
                    \A j \in DOMAIN res :
                        ~RLt(res[j].MatchScore, Candidates[i].MatchScore)

\* A call in which one scored channel fell below the threshold and the
\* candidates outnumbered MaxMatchingResults.
C3_Witness ==
    /\ Returned
    /\ Len(Candidates) < Len(lastMatch.scored)
    /\ Len(Candidates) > MaxMatchingResults
    /\ Len(lastMatch.results) = MaxMatchingResults

\* C4: results with equal score keep their fetch order, and so the returned
\* order is a function of the channel list and the request.  (sort.Slice is
\* not a stable sort: TLC finds this violated.)
C4_StableOrder ==
    Returned =>
        LET res == lastMatch.results
            ids == { res[j].RedirectID : j \in DOMAIN res }
        IN  /\ \A i, j \in DOMAIN res :
                 (i < j /\ res[i].MatchScore = res[j].MatchScore)
                    => res[i].RedirectID < res[j].RedirectID
            /\ \A i \in DOMAIN Candidates, j \in DOMAIN res :
                 (/\ Candidates[i].RedirectID \notin ids
                  /\ Candidates[i].MatchScore = res[j].MatchScore)
                    => res[j].RedirectID < Candidates[i].RedirectID

\* C5: when the eligible set is empty or the store query fails, MatchChannels
\* returns an error and no results, scores no channel and writes no redirect
\* token.
C5_FailsFast ==
    [][(lastMatch'.called /\ calls' = calls + 1
          /\ (lastMatch'.dbFailed \/ lastMatch'.eligible = <<>>))
        => /\ lastMatch'.err # ""
           /\ lastMatch'.results = <<>>
           /\ lastMatch'.scored = <<>>
           /\ redirects' = redirects
           /\ nextUUID' = nextUUID]_vars

\* A call that found no eligible channel, made when tokens of an earlier
\* call were in the store.
C5_Witness ==
    /\ lastMatch.called
    /\ lastMatch.eligible = <<>>
    /\ ~lastMatch.dbFailed
    /\ lastMatch.err # ""
    /\ DOMAIN redirects # {}

\* C6: a token resolves to the stored record at every time in
\* [issuedAt, issuedAt + RedirectExpiration) and is not found at any time
\* after issuedAt + RedirectExpiration; every token attached to a returned
\* result resolves until its ExpiresAt.
C6_TokenLifetime ==
    /\ (lastRedirect.called /\ lastRedirect.id \in DOMAIN redirects) =>
         LET rec == redirects[lastRedirect.id].val
             issuedAt == rec.created_at
         IN  /\ (issuedAt <= now /\ now < issuedAt + RedirectExpiration)
                   => (lastRedirect.found /\ lastRedirect.data = rec)
             /\ now > issuedAt + RedirectExpiration => ~lastRedirect.found
    /\ (lastRedirect.called /\ Returned) =>
         \A j \in DOMAIN lastMatch.results :
            (/\ lastMatch.results[j].RedirectID = lastRedirect.id
             /\ now < lastMatch.results[j].RedirectInfo.ExpiresAt)
               => /\ lastRedirect.found
                  /\ lastRedirect.data.redirect_info
                        = lastMatch.results[j].RedirectInfo
                  /\ lastRedirect.data.request = lastMatch.request

\* A token of a returned result resolved at the last tick before it expires,
\* while an older token in the store has already expired.
C6_Witness ==
    /\ lastRedirect.called
    /\ lastRedirect.found
    /\ now + 1 = lastRedirect.data.redirect_info.ExpiresAt
    /\ \E j \in DOMAIN lastMatch.results :
         lastMatch.results[j].RedirectID = lastRedirect.id
    /\ \E id \in DOMAIN redirects : redirects[id].expireAt <= now

\* C7: GetRedirectInfo leaves the token store unchanged, and a resolution
\* that follows a successful one for the same token gives the same record.
C7_ResolveIsReadOnly ==
    [][lastRedirect'.called =>
         /\ redirects' = redirects
         /\ lastRedirect'.again =>
              (lastRedirect'.found /\ lastRedirect'.data = lastRedirect.data)
      ]_vars

\* A token resolved twice in a row, both times successfully.
C7_Witness ==
    /\ lastRedirect.called
    /\ lastRedirect.again
    /\ lastRedirect.found

\* ======================================================= claims C8 - C10

\* The events persisted for a user, oldest first.
UserEvents(userID) == SelectSeq(events, LAMBDA e : e.UserID = userID)

\* The events evs[from..Len(evs)] were tracked one after the other with less
\* than AttributionWindow between consecutive ones.
Chained(evs, from) ==
    \A i \in from..(Len(evs) - 1) :
       evs[i + 1].Timestamp - evs[i].Timestamp < AttributionWindow

\* The path a user should have at time t, read off the events table: the
\* touchpoints of the latest run of chained events, most recent first, at
\* most ten of them, and nothing once AttributionWindow has passed since the
\* latest one.
ExpectedPath(userID, t) ==
    LET evs == UserEvents(userID)
        n == Len(evs)
    IN  IF n = 0 \/ t - evs[n].Timestamp >= AttributionWindow THEN <<>>
        ELSE LET from == CHOOSE j \in 1..n :
                            /\ Chained(evs, j)
                            /\ \A k \in 1..(j - 1) : ~Chained(evs, k)
             IN  [i \in 1..MinOf(n - from + 1, 10) |-> touchpoint(evs[n + 1 - i])]

\* C8: after n successful TrackEvent calls of one user, each within the
\* attribution window of the one before, the user's path holds exactly
\* min(n, 10) entries: the touchpoints of the most recent events, most recent
\* first.
C8_PathIsRecentTouchpoints ==
    \A userID \in Users :
       LET evs == UserEvents(userID)
           n == Len(evs)
           path == RedisLRange(attributionPaths, userID, now)
       IN  (/\ n > 0
            /\ Chained(evs, 1)
            /\ now - evs[n].Timestamp < AttributionWindow)
             => /\ Len(path) = MinOf(n, 10)
                /\ \A i \in 1..Len(path) : path[i] = touchpoint(evs[n + 1 - i])

\* More than ten events tracked over several ticks: the path holds ten
\* touchpoints and the oldest events are no longer in it.
C8_Witness ==
    LET evs == UserEvents("u1")
        path == RedisLRange(attributionPaths, "u1", now)
    IN  /\ Len(evs) > 10
        /\ Chained(evs, 1)
        /\ evs[1].Timestamp < evs[Len(evs)].Timestamp
        /\ Len(path) = 10
        /\ path[10] = touchpoint(evs[Len(evs) - 9])
        /\ path[1] = touchpoint(evs[Len(evs)])

\* A step that persists a conversion.
Converts == Len(conversions') = Len(conversions) + 1

\* C9: every append sets the path's expiry to AttributionWindow from that
\* append; a conversion made less than AttributionWindow after the user's
\* latest touchpoint records the whole capped path, entries older than the
\* window included, and one made more than AttributionWindow after it (or for
\* a user with no touchpoint) records an empty path.
C9_ExpiryResetOnAppend ==
    [][/\ Len(events') = Len(events) + 1 =>
            LET key == events'[Len(events')].UserID
            IN  /\ key \in DOMAIN attributionPaths'
                /\ ~attributionPaths'[key].persistent
                /\ attributionPaths'[key].expireAt = now + AttributionWindow
       /\ Converts =>
            LET c == conversions'[Len(conversions')]
                evs == UserEvents(c.UserID)
                n == Len(evs)
            IN  /\ (n > 0 /\ now - evs[n].Timestamp < AttributionWindow) =>
                      /\ c.AttributionPath # <<>>
                      /\ c.AttributionPath = ExpectedPath(c.UserID, now)
                /\ (n = 0 \/ now - evs[n].Timestamp > AttributionWindow) =>
                      c.AttributionPath = <<>>
      ]_vars

\* A conversion, made within the window of the latest touchpoint, whose path
\* is capped at ten and holds entries older than the window.
C9_Witness ==
    /\ lastConversion.called
    /\ lastConversion.err = ""
    /\ LET c == conversions[Len(conversions)]
       IN  /\ Len(c.AttributionPath) = 10
           /\ Len(UserEvents(c.UserID)) > 10
           /\ c.Timestamp - c.AttributionPath[1][3] < AttributionWindow
           /\ c.Timestamp - c.AttributionPath[10][3] > AttributionWindow

\* C10: the path persisted with a conversion is the user's path as it was
\* when TrackConversion ran, most recent first, and no later step changes a
\* conversion that is already persisted.
C10_PathFrozenAtConversion ==
    [][/\ Converts =>
            LET c == conversions'[Len(conversions')]
            IN  c.AttributionPath =
                    RedisLRange(attributionPaths, c.UserID, now)
       /\ \A i \in 1..Len(conversions) :
            /\ i \in 1..Len(conversions')
            /\ conversions'[i] = conversions[i]
      ]_vars

\* Click A, click B, convert: the conversion holds [B:click, A:click], and it
\* still does after the user's path has moved on.
C10_Witness ==
    /\ Len(conversions) = 1
    /\ Len(conversions[1].AttributionPath) = 2
    /\ conversions[1].AttributionPath[1][1] = "B"
    /\ conversions[1].AttributionPath[1][2] = "click"
    /\ conversions[1].AttributionPath[2][1] = "A"
    /\ conversions[1].AttributionPath[2][2] = "click"
    /\ conversions[1].AttributionPath[2][3] < conversions[1].AttributionPath[1][3]
    /\ lastTrack.called
    /\ lastTrack.err = ""
    /\ events[Len(events)].UserID = conversions[1].UserID
    /\ RedisLRange(attributionPaths, conversions[1].UserID, now)
          # conversions[1].AttributionPath

\* ====================================================== claims C11 - C20

\* The rows of a table written today for a channel.
TodayRows(table, channelID) ==
    SelectSeq(table, LAMBDA r : /\ r.ChannelID = channelID
                                /\ Today(r.Timestamp) = Today(now))

RECURSIVE SumRevenue(_)
SumRevenue(rows) ==
    IF rows = <<>> THEN 0 ELSE Head(rows).Revenue + SumRevenue(Tail(rows))

\* C11: after C successful TrackConversion calls for a channel on one day,
\* the day's counters the rollup reads for that channel show C conversions
\* and the sum of their revenues.  (TrackConversion writes the
\* channel_stats hash and never the daily counters: TLC finds this violated
\* after the first conversion.)
C11_ConversionsCounted ==
    \A channelID \in {"A", "B"} :
       LET rows == TodayRows(conversions, channelID)
           stats == calculateChannelStats(dailyCounters, channelID, now)
       IN  /\ stats.TotalConversions = Len(rows)
           /\ stats.TotalRevenue = SumRevenue(rows)

\* C12: every successful TrackEvent with a known type adds exactly one to the
\* day's counter of that type for the event's channel, besides writing the
\* event row and updating the user's path.  (TrackEvent never writes a
\* counter: TLC finds this violated at the first click.)
C12_EventsCounted ==
    [][Len(events') = Len(events) + 1 =>
         LET e == events'[Len(events')]
         IN  e.EventType \in KnownTypes =>
               LET key == counterKey(kindOf(e.EventType), e.ChannelID, now)
               IN  /\ RedisGetNumber(dailyCounters', key, now)
                        = RedisGetNumber(dailyCounters, key, now) + 1
                   /\ RedisLRange(attributionPaths', e.UserID, now)[1]
                        = touchpoint(e)
      ]_vars

\* C13: a TrackEvent call with an empty user id or an empty event type returns
\* the validation error and changes nothing: no event row, no path, no
\* counter, no queue, nothing published.
C13_InvalidEventRejected ==
    [][\A userID \in Users \cup {NoUser}, typed \in BOOLEAN, dbErr \in BOOLEAN :
         (/\ userID = NoUser \/ ~typed
          /\ TrackEventCall(userID, typed, dbErr))
           => /\ lastTrack'.called
              /\ lastTrack'.err = "user_id and event_type are required"
              /\ UNCHANGED <<events, attributionPaths, dailyCounters, queues,
                             published, channelStats, conversions,
                             attributionStats>>
      ]_vars

\* A call was rejected for a missing field while the user has a path and
\* events on record.
C13_Witness ==
    /\ lastTrack.called
    /\ lastTrack.err = "user_id and event_type are required"
    /\ Len(events) > 0
    /\ RedisLRange(attributionPaths, "u1", now) # <<>>

\* C14: an event of a type other than click, view, redirect and signup is
\* accepted: TrackEvent returns success and persists the row, and no daily
\* counter changes, neither at the call nor when a queue processor handles an
\* event of such a type.
C14_UnknownTypeAccepted ==
    [][/\ \A userID \in Users :
            (/\ Workload(Len(events) + 1).EventType \notin KnownTypes
             /\ TrackEventCall(userID, TRUE, FALSE))
              => /\ lastTrack'.called
                 /\ lastTrack'.err = ""
                 /\ Len(events') = Len(events) + 1
                 /\ events'[Len(events')].EventType
                      = Workload(Len(events) + 1).EventType
                 /\ dailyCounters' = dailyCounters
       /\ (/\ queues.events # <<>>
           /\ queues'.events = Tail(queues.events)
           /\ Head(queues.events).json
           /\ Head(queues.events).EventType \notin KnownTypes)
            => dailyCounters' = dailyCounters
      ]_vars

\* An event of unknown type was tracked with success and is on record, while
\* an item of unknown type is next in the events queue and a click has been
\* counted.
C14_Witness ==
    /\ lastTrack.called
    /\ lastTrack.err = ""
    /\ events[Len(events)].EventType \notin KnownTypes
    /\ queues.events # <<>>
    /\ Head(queues.events).json
    /\ Head(queues.events).EventType \notin KnownTypes
    /\ RedisGetNumber(dailyCounters, counterKey("clicks", "A", now), now) = 1

\* The unit interval.
InUnit(x) == RLe(Zero, x) /\ RLe(x, One)

\* The five sub-scores of the probed channel and request.
SubScores ==
    [fee |-> calculateFeeScore(probe.channel, probe.request.Amount),
     availability |-> calculateAvailabilityScore(probe.channel, probe.request),
     ux |-> calculateUXScore(probe.channel, probe.request),
     security |-> calculateSecurityScore(probe.channel),
     liquidity |-> calculateLiquidityScore(probe.channel, probe.request.AssetID,
                                           probe.request.Amount)]

\* C15: the five weights are 0.30, 0.25, 0.20, 0.15 and 0.10 and sum to 1; for
\* any channel and request each sub-score lies in [0, 1], and so does the
\* final match score.
C15_ScoresInUnitInterval ==
    /\ Weights = [fee |-> Rat(30, 100), availability |-> Rat(25, 100),
                  ux |-> Rat(20, 100), security |-> Rat(15, 100),
                  liquidity |-> Rat(10, 100)]
    /\ RAdd(RAdd(RAdd(RAdd(Weights.fee, Weights.availability), Weights.ux),
                 Weights.security), Weights.liquidity) = One
    /\ probe.scored =>
         /\ \A k \in DOMAIN SubScores : InUnit(SubScores[k])
         /\ InUnit(probe.result.MatchScore)

\* A channel with every UX and security feature, free and fully available, has
\* been scored: four sub-scores are 1 and the match score is 0.99.
C15_Witness ==
    /\ probe.scored
    /\ SubScores.ux = One
    /\ SubScores.security = One
    /\ SubScores.fee = One
    /\ SubScores.availability = One
    /\ probe.result.MatchScore = Rat(99, 100)

\* The taker rate of a channel in ten-thousandths.
TakerBP(channel) == channel.Taker.n * (10000 \div channel.Taker.d)

\* The total estimated fee for amount a lies strictly between the floor
\* a * 0.0001 and the ceiling a * 0.01 (all three times ten thousand).
FeeInRange(channel, a) ==
    LET total == a * TakerBP(channel) + 10000 * channel.Crypto.n
    IN  a < total /\ total < 100 * a

\* Pairs of amounts a1 < a2 that both keep the probed channel's fee in range,
\* a1 being the amount of the scored request.
RangePairs ==
    IF ~probe.scored THEN {}
    ELSE {<<a1, a2>> \in ProbeAmounts \X ProbeAmounts :
            /\ a1 = probe.request.Amount.n
            /\ a1 < a2
            /\ FeeInRange(probe.channel, a1)
            /\ FeeInRange(probe.channel, a2)}

\* C16 as stated: for a fixed channel and amounts a1 < a2 that keep the total
\* fee strictly between floor and ceiling, the larger amount has the strictly
\* lower fee sub-score.
C16_LargerAmountLowerScore ==
    \A pair \in RangePairs :
        RLt(calculateFeeScore(probe.channel, Rat(pair[2], 1)),
            calculateFeeScore(probe.channel, Rat(pair[1], 1)))

\* C16 amended: for a fixed channel and amounts a1 < a2 that keep the total fee
\* strictly between floor and ceiling, the fee sub-score moves with the sign
\* of the flat withdrawal fee: strictly higher at a2 when the fee is positive,
\* equal when it is zero, strictly lower only when it is negative.
C16_ScoreFollowsFlatFee ==
    \A pair \in RangePairs :
        LET s1 == calculateFeeScore(probe.channel, Rat(pair[1], 1))
            s2 == calculateFeeScore(probe.channel, Rat(pair[2], 1))
            flat == probe.channel.Crypto.n
        IN  /\ flat > 0 => RLt(s1, s2)
            /\ flat = 0 => s1 = s2
            /\ flat < 0 => RLt(s2, s1)

\* Taker 0.005 and withdrawal fee 5: in range at 10000 and at 100000, and the
\* larger amount scores higher.
C16_Witness ==
    /\ <<10000, 100000>> \in RangePairs
    /\ probe.channel.Crypto.n = 5
    /\ RLt(calculateFeeScore(probe.channel, Rat(10000, 1)),
           calculateFeeScore(probe.channel, Rat(100000, 1)))

\* The reference mapping of the fee sub-score, in whole numbers: with
\* total, floor and ceiling times ten thousand, 1 at or below the floor, 0 at
\* or above the ceiling, 1 - (total - floor) / (ceiling - floor) between.
ReferenceFeeScore(channel, a) ==
    LET total == a * TakerBP(channel) + 10000 * channel.Crypto.n
        floor == a
        ceiling == 100 * a
    IN  IF total <= floor THEN Rat(1, 1)
        ELSE IF total >= ceiling THEN Rat(0, 1)
        ELSE Rat((ceiling - floor) - (total - floor), ceiling - floor)

\* C17: the fee sub-score equals the reference mapping; amount 10000, taker
\* 0.005 and withdrawal fee 5 give 1 - 54/99; the interpolation is only
\* reached with ceiling above floor, so nothing is divided by zero, amount 0
\* included, where the score is 1 or 0.
C17_FeeScoreIsReference ==
    probe.scored =>
        LET a == probe.request.Amount.n
            score == calculateFeeScore(probe.channel, probe.request.Amount)
        IN  /\ score = ReferenceFeeScore(probe.channel, a)
            /\ score.d > 0
            /\ FeeInRange(probe.channel, a) => 100 * a - a # 0
            /\ a = 0 => score \in {Zero, One}
            /\ (a = 10000 /\ TakerBP(probe.channel) = 50
                          /\ probe.channel.Crypto.n = 5)
                 => score = RSub(One, Rat(54, 99))

\* The example of the claim has been scored, in the interpolated branch.
C17_Witness ==
    /\ probe.scored
    /\ probe.request.Amount.n = 10000
    /\ TakerBP(probe.channel) = 50
    /\ probe.channel.Crypto.n = 5
    /\ FeeInRange(probe.channel, 10000)
    /\ SubScores.fee = Rat(45, 99)

\* The two gates of the availability check.
KYCGateFails == probe.channel.KYCRequired /\ probe.request.KYCLevel = ""

PaymentGateFails ==
    \A i \in DOMAIN probe.channel.PaymentMethods :
        probe.channel.PaymentMethods[i] # probe.request.PaymentMethod

\* C18: a KYC-required channel asked with an empty KYC level has its
\* availability sub-score 0.3 lower than with a KYC level, is not available
\* and carries the reason "KYC verification required"; a result is
\* unavailable exactly when the KYC gate or the payment gate fails, and has
\* reasons exactly when it is unavailable.
C18_AvailabilityGates ==
    probe.scored =>
        LET availability == probe.result.Availability
            withLevel == [probe.request EXCEPT !.KYCLevel = "basic"]
        IN  /\ KYCGateFails =>
                 /\ SubScores.availability =
                      RSub(calculateAvailabilityScore(probe.channel, withLevel),
                           Rat(3, 10))
                 /\ availability.Available = FALSE
                 /\ \E i \in DOMAIN availability.Reasons :
                       availability.Reasons[i] = "KYC verification required"
            /\ availability.Available = FALSE
                 <=> (KYCGateFails \/ PaymentGateFails)
            /\ availability.Reasons # <<>> <=> availability.Available = FALSE

\* A KYC-required channel that supports the payment method has been scored
\* for a request without a KYC level, and is unavailable for that alone.
C18_Witness ==
    /\ probe.scored
    /\ KYCGateFails
    /\ ~PaymentGateFails
    /\ probe.result.Availability.Available = FALSE
    /\ probe.result.Availability.Reasons = <<"KYC verification required">>

\* C19: for every channel the stats derived from today's live counters have
\* conversion rate = conversions / clicks (0 when there are no clicks) and
\* average order value = revenue / conversions (0 when there are no
\* conversions), and so has every saved snapshot.
C19_DerivedStats ==
    LET derived(stats) ==
            /\ stats.ConversionRate =
                 (IF stats.TotalClicks = 0 THEN Rat(0, 1)
                  ELSE Rat(stats.TotalConversions, stats.TotalClicks))
            /\ stats.AverageOrderValue =
                 (IF stats.TotalConversions = 0 THEN Rat(0, 1)
                  ELSE Rat(stats.TotalRevenue, stats.TotalConversions))
    IN  /\ \A c \in DOMAIN channels :
             derived(calculateChannelStats(dailyCounters, channels[c].ID, now))
        /\ \A i \in DOMAIN attributionStats : derived(attributionStats[i])

\* Every background loop has returned.
AllReturned == \A l \in Loops : loops[l] = "returned"

\* What a step leaves alone as far as loop l is concerned: l stays returned,
\* pops nothing from its queue (producers may still append) and writes
\* nothing of what its handler writes.
Quiet(l) ==
    /\ loops'[l] = "returned"
    /\ l \in DOMAIN queues =>
         /\ Len(queues'[l]) >= Len(queues[l])
         /\ SubSeq(queues'[l], 1, Len(queues[l])) = queues[l]
    /\ l = "matching" =>
         /\ UNCHANGED <<eligibleCache, redirects, nextUUID, lastMatch>>
         /\ published'.matching_completed = published.matching_completed
    /\ l = "sync" =>
         published'.channel_sync_completed = published.channel_sync_completed
    /\ l = "rollup" => UNCHANGED attributionStats
    /\ l = "events" =>
         \A key \in DOMAIN dailyCounters :
            key[1] \in {"clicks", "views", "redirects", "signups"} =>
                /\ key \in DOMAIN dailyCounters'
                /\ dailyCounters'[key] = dailyCounters[key]
    /\ l = "conversions" =>
         \A key \in DOMAIN dailyCounters :
            key[1] \in {"conversions", "revenue"} =>
                /\ key \in DOMAIN dailyCounters'
                /\ dailyCounters'[key] = dailyCounters[key]

\* C20: once the context is cancelled every background loop (matching queue
\* drain, attribution event and conversion processors, hourly rollup, channel
\* sync) eventually returns, and a loop that has returned pops and processes
\* nothing afterwards.
C20_LoopsTerminate ==
    /\ ctxDone ~> AllReturned
    /\ [][\A l \in Loops : loops[l] = "returned" => Quiet(l)]_vars

\* The context was cancelled with work left: all five loops have returned
\* and a request is still queued for the drain.
C20_Witness ==
    /\ ctxDone
    /\ AllReturned
    /\ queues["matching"] # <<>>

\* The matching engine next to the channel directory: MatchChannels calls,
\* channel updates and the clock.
InitDirectory ==
    /\ MatchInit
    /\ now = 0
    /\ nextUUID = 1
    /\ attributionPaths = <<>>
    /\ channelStats = <<>>
    /\ events = <<>>
    /\ conversions = <<>>
    /\ published = [attribution_event |-> 0, conversion_event |-> 0,
                    channel_updated |-> 0]
    /\ lastTrack = NoCall
    /\ lastConversion = NoCall
    /\ AuxInit
    /\ budget = [updates |-> MaxUpdates]

DirectoryNext ==
    \/ /\ \E request \in DirectoryRequests, dbErr \in BOOLEAN :
            MatchChannels(request, dbErr)
       /\ UNCHANGED auxVars
    \/ \E id \in UpdatedIDs, updates \in Updates, dbErr \in BOOLEAN,
          readErr \in BOOLEAN :
            UpdateChannel(id, updates, dbErr, readErr)
    \/ Tick /\ UNCHANGED auxVars

SpecDirectory == InitDirectory /\ [][DirectoryNext]_vars

\* What the matching queue holds in the drain runs: a request that matches,
\* a request no channel is eligible for, and bytes that do not parse.
DrainItems ==
    {MatchingItem(TRUE, Request("a1", 10000, "u1", "US", NoKYC, "card")),
     MatchingItem(TRUE, Request("a2", 1000, "u1", "EU", "basic", "card")),
     MatchingItem(FALSE, Nil)}

\* The sequences of at most n items.
RECURSIVE DrainQueues(_)
DrainQueues(n) ==
    IF n = 0 THEN {<<>>}
    ELSE DrainQueues(n - 1) \cup
         {Append(q, item) : q \in {d \in DrainQueues(n - 1) : Len(d) = n - 1},
                            item \in DrainItems}

\* The matching engine alone, waiting at its select, with up to MaxDrainItems
\* items on matching:queue; a producer pushes one more.
InitDrain ==
    /\ MatchInit
    /\ now = 0
    /\ nextUUID = 1
    /\ attributionPaths = <<>>
    /\ channelStats = <<>>
    /\ events = <<>>
    /\ conversions = <<>>
    /\ published = [attribution_event |-> 0, conversion_event |-> 0,
                    matching_completed |-> 0, matching_errors |-> 0,
                    channel_sync_completed |-> 0]
    /\ lastTrack = NoCall
    /\ lastConversion = NoCall
    /\ dailyCounters = <<>>
    /\ \E q \in DrainQueues(MaxDrainItems) :
         queues = [matching |-> q, events |-> <<>>, conversions |-> <<>>]
    /\ attributionStats = <<>>
    /\ ctxDone = FALSE
    /\ loops = [l \in Loops |-> IF l = "matching" THEN "select" ELSE "idle"]
    /\ ticker = [l \in TickerLoops |-> FALSE]
    /\ probe = NoProbe
    /\ goroutines = NoGoroutines
    /\ channelCache = <<>>
    /\ budget = [events |-> [u \in {"u1"} |-> 0], conversions |-> 0,
                 queued |-> 1]

DrainNext ==
    \/ Cancel
    \/ \E item \in DrainItems : Enqueue("matching", item)
    \/ TickerFire("matching")
    \/ \E done \in BOOLEAN : StartMatchingEngine(done)
    \/ \E cancelled \in BOOLEAN, dbErr \in BOOLEAN :
         processMatchingQueue(cancelled, dbErr)

\* The drain of matching:queue.
SpecDrain == InitDrain /\ [][DrainNext]_vars

\* The types of the channels a sync cycle finds, in turn: a dex, a type that
\* has no sync (issuer), a broker.
SyncTypes == <<"dex", "issuer", "broker">>

\* The first n channels a sync cycle may find.
SyncCatalogue(n) ==
    [i \in 1..n |->
        [BaseChannel EXCEPT !.ID = "s" \o ToString(i),
                            !.Type = SyncTypes[((i - 1) % 3) + 1]]]

\* The channel sync loop alone: the table holds the first n channels of the
\* sync catalogue (n = 0..MaxSyncChannels) and an inactive one,
\* config.MaxConcurrentSyncs is any of 1..MaxSyncSlots, and the loop begins
\* with a cycle.
InitSync ==
    /\ now = 0
    /\ nextUUID = 1
    /\ attributionPaths = <<>>
    /\ channelStats = <<>>
    /\ events = <<>>
    /\ conversions = <<>>
    /\ published = [attribution_event |-> 0, conversion_event |-> 0,
                    matching_completed |-> 0, matching_errors |-> 0,
                    channel_sync_completed |-> 0]
    /\ lastTrack = NoCall
    /\ lastConversion = NoCall
    /\ \E n \in 0..MaxSyncChannels :
         channels = SyncCatalogue(n) \o
                    <<[BaseChannel EXCEPT !.ID = "s0", !.IsActive = FALSE]>>
    /\ eligibleCache = <<>>
    /\ redirects = <<>>
    /\ calls = 0
    /\ lastMatch = NoMatch
    /\ lastRedirect = NoRedirect
    /\ dailyCounters = <<>>
    /\ queues = [matching |-> <<>>, events |-> <<>>, conversions |-> <<>>]
    /\ attributionStats = <<>>
    /\ ctxDone = FALSE
    /\ loops = [l \in Loops |-> IF l = "sync" THEN "sync" ELSE "idle"]
    /\ ticker = [l \in TickerLoops |-> FALSE]
    /\ probe = NoProbe
    /\ \E maxConcurrentSyncs \in 1..MaxSyncSlots :
         goroutines = NoCycle(maxConcurrentSyncs)
    /\ channelCache = <<>>
    /\ budget = [events |-> [u \in {"u1"} |-> 0], conversions |-> 0,
                 queued |-> 0]

\* A step of the i-th goroutine of the cycle.
WorkerStep(i) ==
    \/ WorkerAcquire(i)
    \/ WorkerSync(i)
    \/ WorkerSend(i)
    \/ WorkerRelease(i)
    \/ WorkerDone(i)

\* A step of syncAllChannels itself.
CycleStep ==
    \/ SyncSpawn
    \/ SyncSpawnCloser
    \/ Collect
    \/ CollectEnd
    \/ PublishSyncEvent

SyncNext ==
    \/ Cancel
    \/ /\ published.channel_sync_completed < MaxSyncEvents
       /\ TickerFire("sync")
    \/ \E done \in BOOLEAN : StartChannelSync(done)
    \/ \E dbErr \in BOOLEAN : SyncQuery(dbErr)
    \/ CycleStep
    \/ \E i \in 1..MaxSyncChannels : WorkerStep(i)
    \/ CloseResults

\* The channel sync loop with its cycles goroutine by goroutine.
SpecSync == InitSync /\ [][SyncNext]_vars

\* The cycle under Go's scheduler: a goroutine that can run does run.
FairSync ==
    /\ SpecSync
    /\ WF_vars(CycleStep)
    /\ \A i \in 1..MaxSyncChannels : WF_vars(WorkerStep(i))
    /\ WF_vars(CloseResults)

\* ---------------------------------------------------------- claims C21 - C30

\* A step pops the head of matching:queue.
PopsRequest ==
    /\ queues["matching"] # <<>>
    /\ queues'["matching"] = Tail(queues["matching"])
    /\ loops["matching"] = "blpop"

\* C21: delivery from matching:queue is at-least-once.  Nothing puts a popped
\* request back, so every step that pops a request that parses has to
\* publish its result set.
C21_PoppedRequestPublished ==
    [][(PopsRequest /\ Head(queues["matching"]).json)
        => published'.matching_completed = published.matching_completed + 1
      ]_vars

\* C22: after a MatchChannels call returns, the tokens the call wrote to the
\* token store are exactly the tokens attached to the returned results, one
\* per result.
C22_TokensOnlyForResults ==
    [][(calls' = calls + 1 /\ lastMatch'.called)
        => LET results == lastMatch'.results
               written == DOMAIN redirects' \ DOMAIN redirects
           IN  /\ written = {results[i].RedirectID : i \in DOMAIN results}
               /\ Cardinality(written) = Len(results)
      ]_vars

\* C23: under any interleaving of TrackEvent and TrackConversion calls for a
\* user the stored attribution path never holds more than 10 entries, and no
\* conversion is persisted with a path longer than 10 entries.
C23_PathCapUnderInterleaving ==
    /\ \A userID \in Users :
         Len(getUserAttributionPath(attributionPaths, userID, now)) <= 10
    /\ \A i \in DOMAIN conversions : Len(conversions[i].AttributionPath) <= 10

\* The attribution_path:<user> key as Redis holds it: its entries and its
\* expiry, or nothing.
StoredPath(store, userID) ==
    IF userID \in DOMAIN store THEN store[userID] ELSE Nil

\* The user whose call takes the step, if a TrackEvent call takes it.
Stepping(userID) ==
    \E h \in Handlers :
        /\ goroutines'[h] # goroutines[h]
        /\ userID = (IF goroutines[h].pc = "idle" THEN goroutines'[h].event.UserID
                     ELSE goroutines[h].event.UserID)

\* C28: a TrackEvent or TrackConversion call for one user leaves the stored
\* attribution path, entries and expiry, of every other user unchanged, in
\* every interleaving of the calls' commands.
C28_PathsIndependent ==
    [][\A userID \in Users :
         StoredPath(attributionPaths', userID)
              # StoredPath(attributionPaths, userID)
           => Stepping(userID)
      ]_vars

\* Both users have a path, one call of each is in progress and the second
\* user's call has pushed its touchpoint while the first user's has not
\* trimmed yet.
C28_Witness ==
    /\ \A userID \in Users : userID \in DOMAIN attributionPaths
    /\ \E h1 \in Handlers, h2 \in Handlers :
         /\ goroutines[h1].pc = "ltrim"
         /\ goroutines[h1].event.UserID = "u1"
         /\ goroutines[h2].pc = "ltrim"
         /\ goroutines[h2].event.UserID = "u2"
    /\ Len(attributionPaths["u1"].val) = 11
    /\ Len(attributionPaths["u2"].val) = 1

\* A step that is one MatchChannels call.
MatchStep == calls' = calls + 1 /\ lastMatch'.called

\* The ids of a list of channels, in order.
IDs(chs) == [i \in DOMAIN chs |-> chs[i].ID]

\* The rows of the table that are active and support the asset and the region.
ActiveFor(table, assetID, region) ==
    SelectSeq(table, LAMBDA c : /\ c.Status = "active" /\ c.IsActive
                                /\ assetID \in c.SupportedAssets
                                /\ region \in c.SupportedRegions)

\* The eligible_channels key of the request is set and has not lapsed.
LiveEntry(request) ==
    /\ <<request.AssetID, request.UserRegion>> \in DOMAIN eligibleCache
    /\ now < eligibleCache[<<request.AssetID, request.UserRegion>>].expireAt

\* C24: the eligible channels are cached per (asset, region).  On a hit the
\* call gets the cached list, whatever the table holds and whether or not the
\* store answers, and the cache is left as it was; on a miss it gets exactly
\* the active rows that support the asset and the region and stores that list
\* under the key with the TTL, touching no other key; a miss whose query fails
\* writes nothing.
C24_CacheReadThrough ==
    [][MatchStep
        => LET request == lastMatch'.request
               key == <<request.AssetID, request.UserRegion>>
               rows == ActiveFor(channels, request.AssetID,
                                 request.UserRegion)
           IN  IF LiveEntry(request)
               THEN /\ lastMatch'.hit
                    /\ ~lastMatch'.dbFailed
                    /\ lastMatch'.eligible = IDs(eligibleCache[key].val)
                    /\ eligibleCache' = eligibleCache
               ELSE /\ ~lastMatch'.hit
                    /\ lastMatch'.dbFailed => eligibleCache' = eligibleCache
                    /\ ~lastMatch'.dbFailed =>
                         /\ lastMatch'.eligible = IDs(rows)
                         /\ DOMAIN eligibleCache' =
                              DOMAIN eligibleCache \cup {key}
                         /\ eligibleCache'[key] =
                              [val |-> rows,
                               expireAt |-> now + EligibleCacheTTL]
                         /\ \A k \in DOMAIN eligibleCache \ {key} :
                              eligibleCache'[k] = eligibleCache[k]
      ]_vars

\* A call was served from the cache although the table no longer gives the
\* cached list.
C24_Witness ==
    /\ lastMatch.called /\ lastMatch.hit
    /\ lastMatch.eligible #
         IDs(ActiveFor(channels, lastMatch.request.AssetID,
                       lastMatch.request.UserRegion))

\* The row of the table a result names is no longer eligible for the request.
Stale(result, request) ==
    \A i \in DOMAIN channels :
        channels[i].ID = result.ChannelID
            => ~eligibleRow(channels[i], request.AssetID, request.UserRegion)

\* C25: staleness is bounded by the TTL.  No entry outlives the TTL counted
\* from now; a MatchChannels call returns a channel that is no longer
\* eligible only from an entry that has not lapsed, which it leaves as it is;
\* and UpdateChannel leaves the eligible_channels keys alone.
C25_StalenessBounded ==
    [][/\ \A k \in DOMAIN eligibleCache :
            eligibleCache[k].expireAt <= now + EligibleCacheTTL
       /\ MatchStep
            => \A i \in DOMAIN lastMatch'.results :
                 Stale(lastMatch'.results[i], lastMatch'.request)
                    => /\ LiveEntry(lastMatch'.request)
                       /\ eligibleCache' = eligibleCache
       /\ budget'.updates < budget.updates => eligibleCache' = eligibleCache
      ]_vars

\* A call returned a channel that had been deactivated after the entry was
\* cached.
C25_Witness ==
    /\ lastMatch.called /\ lastMatch.hit
    /\ \E i \in DOMAIN lastMatch.results, c \in DOMAIN channels :
         /\ channels[c].ID = lastMatch.results[i].ChannelID
         /\ ~channels[c].IsActive
    /\ published.channel_updated > 0

\* A step of the drain that pops the head of matching:queue.
PopsItem ==
    /\ loops["matching"] = "blpop"
    /\ queues["matching"] # <<>>
    /\ queues'["matching"] = Tail(queues["matching"])

\* C26: a poison item never blocks the drain.  When the popped item does not
\* parse or MatchChannels fails on it, the failure is logged and nothing is
\* published for it, the items behind it stay on the queue in their order,
\* and the drain goes on to the next pop; a drain cycle ends only with the
\* queue empty (or the context cancelled).
C26_PoisonSkipped ==
    [][/\ PopsItem /\ published'.matching_completed = published.matching_completed
            => /\ published'.matching_errors = published.matching_errors + 1
               /\ \/ ~Head(queues["matching"]).json
                  \/ lastMatch'.err # ""
               /\ ~ctxDone => loops'["matching"] = "blpop"
       /\ PopsItem /\ published'.matching_completed # published.matching_completed
            => /\ Head(queues["matching"]).json
               /\ lastMatch'.err = ""
               /\ published'.matching_errors = published.matching_errors
       /\ loops["matching"] = "blpop" /\ loops'["matching"] # "blpop"
            => queues["matching"] = <<>> \/ ctxDone
      ]_vars

\* The drain has skipped a failed item and stands at the next pop with a
\* request behind it.
C26_Witness ==
    /\ loops["matching"] = "blpop"
    /\ published.matching_errors = 1
    /\ published.matching_completed = 0
    /\ ~ctxDone
    /\ Len(queues["matching"]) = 1
    /\ queues["matching"][1].json

\* The rows of attribution_stats for a channel and the current day.
StatsRows(table, channelID) ==
    SelectSeq(table, LAMBDA r : /\ r.ChannelID = channelID
                                /\ r.Period = Today(now))

\* C27: after a run of the hourly rollup every active channel has exactly one
\* attribution_stats record for the current day, and its totals are the
\* channel's live counters at the time of the run.  (The records carry no
\* id: only the first insert ever succeeds, so TLC finds this violated at the
\* first run, which leaves the second active channel without a record.)
C27_OneRecordPerChannel ==
    [][(/\ loops["rollup"] = "select"
        /\ ticker["rollup"] /\ ~ticker'["rollup"]
        /\ attributionStats' # attributionStats)
        => \A c \in DOMAIN channels :
             (channels[c].Status = "active" /\ channels[c].IsActive)
                => LET rows == StatsRows(attributionStats', channels[c].ID)
                       live == calculateChannelStats(dailyCounters,
                                                     channels[c].ID, now)
                   IN  /\ Len(rows) = 1
                       /\ rows[1].TotalClicks = live.TotalClicks
                       /\ rows[1].TotalConversions = live.TotalConversions
                       /\ rows[1].TotalRevenue = live.TotalRevenue
      ]_vars

\* Every candidate the scoring loop built scores below the minimum.
AllBelowMinimum(scored) ==
    \A i \in DOMAIN scored : RLt(scored[i].MatchScore, MinMatchingScore)

\* C29: when channels are eligible but every one of them scores below
\* MinMatchingScore, MatchChannels returns the empty list and no error; the
\* error is what an empty eligible set gives.
C29_EmptyListIsNotAnError ==
    (lastMatch.called /\ ~lastMatch.dbFailed)
        => /\ (lastMatch.eligible # <<>> /\ AllBelowMinimum(lastMatch.scored))
                => lastMatch.err = "" /\ lastMatch.results = <<>>
           /\ lastMatch.eligible = <<>>
                => lastMatch.err # "" /\ lastMatch.results = <<>>

\* A call found eligible channels, scored them all below the minimum and
\* returned the empty list.
C29_Witness ==
    /\ lastMatch.called
    /\ lastMatch.eligible # <<>>
    /\ Len(lastMatch.scored) = Len(lastMatch.eligible)
    /\ AllBelowMinimum(lastMatch.scored)
    /\ lastMatch.err = ""
    /\ lastMatch.results = <<>>

\* The goroutines of the cycle that are inside syncChannel.
Syncing == {i \in DOMAIN goroutines.workers : goroutines.workers[i].pc = "sync"}

\* C30: in a sync cycle at most MaxConcurrentSyncs goroutines are inside
\* syncChannel at any time; results is closed only after every goroutine has
\* sent and exited; when the cycle publishes the sync event it has
\* counted one result per fetched channel and every goroutine it started
\* has exited; and a cycle that has started comes to its end.
C30_SyncCycle ==
    /\ [](Cardinality(Syncing) <= goroutines.maxConcurrentSyncs)
    /\ [](goroutines.closed
            => \A i \in DOMAIN goroutines.workers :
                 goroutines.workers[i].pc = "exited")
    /\ [][published'.channel_sync_completed # published.channel_sync_completed
            => /\ goroutines.successCount + goroutines.errorCount
                    = Len(goroutines.fetched)
               /\ Len(goroutines.fetched)
                    = Len(SelectSeq(channels,
                            LAMBDA c : c.Status = "active" /\ c.IsActive))
               /\ goroutines.successCount =
                    Cardinality({i \in DOMAIN goroutines.fetched :
                                   syncChannel(goroutines.fetched[i]).Success})
               /\ \A i \in DOMAIN goroutines.workers :
                    goroutines.workers[i].pc = "exited"
               /\ goroutines.closer = "exited"
         ]_vars
    /\ (goroutines.main # "idle") ~> (goroutines.main = "idle")

\* MaxConcurrentSyncs goroutines are inside syncChannel while another one
\* waits for a slot.
C30_Witness ==
    /\ goroutines.main # "idle"
    /\ Cardinality(Syncing) = goroutines.maxConcurrentSyncs
    /\ \E i \in DOMAIN goroutines.workers :
         goroutines.workers[i].pc = "acquire"

====
